---- MODULE Spec2Model ----
(***************************************************************************)
(* Nero Party: the party ("session") server.  An Express handler is an     *)
(* async function: it runs without interruption up to its next `await`,    *)
(* and every `await prisma...` is one atomic statement on the SQLite       *)
(* database.  Handlers of different requests interleave at those awaits.   *)
(* The model keeps the four tables, the requests in arrival order with     *)
(* each handler's position and locals, the server clock, the Socket.IO     *)
(* rooms and what each socket has been sent.  A step is a statement with   *)
(* the code that follows it up to the next await.  The read of             *)
(* emitPartySnapshot is the exception: the statement and the handler's     *)
(* resumption with its result are two steps, since nothing in the code     *)
(* orders the resumptions of different handlers.                           *)
(***************************************************************************)
EXTENDS Integers, Sequences, FiniteSets, TLC

(* ------------------------------ bounds --------------------------------- *)

\* requests that arrive in one run of SpecQueue
MaxReqQueue == 3

\* requests that arrive in one run of SpecVote
MaxReqVote == 2

\* requests that arrive in one run of Spec
MaxReq == 2

\* requests that arrive in one run of SpecRank
MaxReqRank == 1

\* requests that arrive in one run of SpecLobby
MaxReqLobby == 2

\* requests that arrive in one run of SpecHost
MaxReqHost == 2

\* requests that arrive in one run of SpecClock
MaxReqClock == 2

\* the last reading of the server clock in a run of SpecClock
MaxNow == 2

\* songs already queued when a run of SpecRank starts
MaxRankSongs == 3

\* requests that arrive in one run of SpecEvents or SpecFault
MaxReqEvents == 2

\* requests that arrive in one run of SpecTwo
MaxReqTwo == 1

\* requests that arrive in one run of SpecSub
MaxReqSub == 2

\* requests that arrive in one run of SpecCurrent
MaxReqCurrent == 2

\* requests that arrive in one run of SpecEnd
MaxReqEnd == 2

\* requests that arrive in one run of SpecOffset
MaxReqOffset == 1

\* requests that arrive in one run of SpecMember
MaxReqMember == 2

(* --------------------------- representation ---------------------------- *)

\* a nullable column or local holding null (every stored number is >= 0)
NULL == -1

\* String(req.body?.songId ?? "") when the field is absent; also the null
\* of a looked-up row id (song and vote ids count from 1)
EmptyId == 0

\* String(req.body?.participantId ?? "") when the field is absent
NoCaller == ""

\* Number(req.body?.offsetSec) when the field is absent
NaN == -999

\* the participant ids a request may carry: the host, the member, an id of
\* no participant, and none
HostId == "h"
MemberId == "m"
StrangerId == "x"
CallerIds == {HostId, MemberId, StrangerId, NoCaller}

\* the host and a member of a second party
OtherHostId == "g"
OtherMemberId == "n"

\* generatePartyCode gives up after this many taken codes
MaxAttempts == 10

\* the codes generatePartyCode can draw (six characters of a 32-letter
\* alphabet in the code, two codes here)
CodeSpace == {"A", "B"}

\* the ids the database gives new Participant rows (cuid()), in order
NewIds == << "p1", "p2", "p3", "p4", "p5", "p6", "p7", "p8" >>

\* String(...).trim() on the names a request may carry
Trim(name) ==
    IF name = " al" THEN "al" ELSE IF name = " " THEN "" ELSE name

\* String(req.params.code).toUpperCase()
ToUpper(c) ==
    IF c = "a" THEN "A" ELSE IF c = "b" THEN "B" ELSE IF c = "c" THEN "C" ELSE c

VARIABLES
    parties,        \* table Party: code -> row (id and code are one key)
    participants,   \* table Participant: set of rows
    songs,          \* table Song: set of rows
    votes,          \* table Vote: set of rows
    nextVoteId,     \* the next fresh Vote id
    reqs,           \* the requests, in arrival order, with handler state
    now,            \* the server clock, in seconds
    rooms,          \* Socket.IO rooms: the (socket, code) pairs joined
    inbox           \* socket -> the events sent to it, in order

db == <<parties, participants, songs, votes, nextVoteId>>
io == <<rooms, inbox>>
vars == <<parties, participants, songs, votes, nextVoteId, reqs, now,
          rooms, inbox>>

(* ------------------------------ tables --------------------------------- *)

\* a Party row as tx.party.create leaves it, with the host linked
NewParty(maxSongs, hostId) ==
    [ status |-> "ACTIVE", maxSongs |-> maxSongs, currentSongId |-> NULL,
      playbackStatus |-> "PAUSED", playbackStartedAt |-> NULL,
      playbackOffsetSec |-> 0, endedAt |-> NULL,
      hostParticipantId |-> hostId ]

PartySongs(code) == { s \in songs : s.partyId = code }
PartyVotes(code) == { v \in votes : v.partyId = code }
\* vote.count() without its where clause
SongVotesOfAnySong(sid) == votes

\* vote.count({ where: { songId } }) ranges over these rows
SongVotes(sid) == { v \in votes : v.songId = sid }

\* the schema without the index on (partyId, queuePosition)
SongUniqueOff(code, pos) == TRUE

\* unique index Song_partyId_queuePosition_key
SongUniqueOk(code, pos) ==
    \A s \in songs : ~(s.partyId = code /\ s.queuePosition = pos)

\* the schema without the index on (songId, participantId)
VoteUniqueOff(sid, pid) == TRUE

\* unique index Vote_songId_participantId_key
VoteUniqueOk(sid, pid) ==
    \A v \in votes : ~(v.songId = sid /\ v.participantId = pid)

\* the schema without the index on (partyId, name)
NameUniqueOff(code, name) == TRUE

\* unique index Participant_partyId_name_key
NameUniqueOk(code, name) ==
    \A p \in participants : ~(p.partyId = code /\ p.name = name)

\* unique index Party_code_key
CodeUniqueOk(code) == code \notin DOMAIN parties

\* the id of the next Participant row
NewParticipantId == NewIds[Cardinality(participants) + 1]

\* participant.findFirst without partyId in its where clause
IsMemberOfAnyParty(code, pid) ==
    \E p \in participants : p.id = pid

\* prisma.participant.findFirst({ where: { id, partyId } })
IsMember(code, pid) ==
    \E p \in participants : p.id = pid /\ p.partyId = code

\* requireHost without partyId in its where clause
RequireHostOfAnyParty(code, pid) ==
    \E p \in participants : p.id = pid /\ p.isHost

\* requireHost: a participant row with this id, this party and isHost
RequireHost(code, pid) ==
    \E p \in participants : p.id = pid /\ p.partyId = code /\ p.isHost

\* song.findFirst without partyId in its where clause
SongInAnyParty(code, sid) ==
    \E s \in songs : s.id = sid

\* prisma.song.findFirst({ where: { id, partyId } })
SongInParty(code, sid) ==
    \E s \in songs : s.id = sid /\ s.partyId = code

(* ------------------------- snapshots and rooms ------------------------- *)

\* the sockets that may connect
Sockets == {"s1", "s2"}

\* no event sent to any socket yet
NoMail == [ s \in Sockets |-> <<>> ]

\* getPartySnapshot returning null
NoSnapshot == [ found |-> FALSE ]

\* the party's songs in queue order, as a sequence of rows
RECURSIVE InQueueOrder(_)
InQueueOrder(S) ==
    IF S = {} THEN <<>>
    ELSE LET first == CHOOSE s \in S :
                        \A t \in S : s.queuePosition < t.queuePosition
                                     \/ (s.queuePosition = t.queuePosition
                                         /\ s.id <= t.id)
         IN <<first>> \o InQueueOrder(S \ {first})

\* getPartySnapshot: the party row, its participants, and its songs in
\* queue order, each with its vote count and voter ids; null for no party
GetPartySnapshot(code) ==
    IF code \notin DOMAIN parties THEN NoSnapshot
    ELSE LET q == InQueueOrder({ s \in songs : s.partyId = code }) IN
         [ found |-> TRUE, code |-> code, party |-> parties[code],
           participants |-> { p \in participants : p.partyId = code },
           songs |-> [ i \in 1..Len(q) |->
                         [ id |-> q[i].id, addedById |-> q[i].addedById,
                           queuePosition |-> q[i].queuePosition,
                           voteCount |-> Cardinality(
                               { v \in votes : v.songId = q[i].id }),
                           voterIds |-> { v.participantId :
                               v \in { w \in votes : w.songId = q[i].id } } ] ] ]

\* an event as a socket receives it; `by` records the request whose handler
\* sent it (0 for none) and is no part of the message
Event(type, code, by, body) ==
    [ type |-> type, code |-> code, by |-> by, body |-> body ]

\* io.emit: every connected socket receives the events, whatever its rooms
EmitToAll(code, evs) == [ s \in Sockets |-> inbox[s] \o evs ]

\* io.to(code).emit for each event of evs in turn: every socket in the
\* room receives them, in order
Emit(code, evs) ==
    [ s \in Sockets |-> IF <<s, code>> \in rooms THEN inbox[s] \o evs
                        ELSE inbox[s] ]

\* the party:snapshot event of emitPartySnapshot, none when the snapshot
\* is null
SnapshotEvents(r) ==
    IF reqs[r].snap.found
    THEN << Event("party:snapshot", reqs[r].code, r, reqs[r].snap) >>
    ELSE << >>

(* ----------------------------- requests -------------------------------- *)

\* a request on arrival: its inputs, the handler's locals at their initial
\* values, and no response yet.  The at* fields are history, read by no
\* handler: whether the party existed and had ended when the request
\* arrived, how many songs it had, whether every earlier handler had
\* returned, for a vote that arrives with no handler open, the votes before
\* the call, for a join, whether the name was taken, for a playback call,
\* whether a reset was written after its read and the reading of the
\* clock it computed with, and the code as it was sent
NewReq(kind, code, pid, sid, act, off) ==
    [ kind |-> kind, code |-> ToUpper(code), pid |-> pid, sid |-> sid,
      act |-> act, off |-> off,
      pc |-> "start", res |-> "pending",
      cnt |-> 0, max |-> NULL, qpos |-> 0, newSong |-> 0,
      pFound |-> "unk", sFound |-> "unk",
      existing |-> 0, voted |-> FALSE, voteCount |-> 0,
      rdStatus |-> "", rdStartedAt |-> NULL, rdOffset |-> 0,
      rdSongs |-> {}, standings |-> <<>>, winner |-> 0,
      name |-> "", pname |-> "", i |-> 0, newPid |-> NoCaller,
      snap |-> NoSnapshot, sock |-> "", atReset |-> FALSE, atCode |-> code,
      atNow |-> NULL,
      atKnown |-> ToUpper(code) \in DOMAIN parties, atTaken |-> FALSE,
      atEnded |-> (ToUpper(code) \in DOMAIN parties
                     /\ parties[ToUpper(code)].status = "ENDED"),
      atSongs |-> IF kind = "AddItem"
                  THEN Cardinality(PartySongs(ToUpper(code))) ELSE 0,
      atIdle |-> \A i \in 1..Len(reqs) : reqs[i].pc = "done",
      atVotes |-> IF kind = "Vote" /\ \A i \in 1..Len(reqs) : reqs[i].pc = "done"
                  THEN { <<v.songId, v.participantId>> : v \in votes }
                  ELSE {} ]

\* res.status(...).json(...): the handler returns, and the locals that are
\* no part of the response go out of scope
Respond(q, result) ==
    [q EXCEPT !.pc = "done", !.res = result, !.cnt = 0, !.max = NULL,
              !.pFound = "unk", !.sFound = "unk", !.existing = EmptyId,
              !.i = 0, !.snap = NoSnapshot, !.atReset = FALSE,
              !.atNow = NULL]

\* the requests that have arrived
Reqs == 1..Len(reqs)

\* a request may arrive while the run's budget lasts
MayArrive(max) == Len(reqs) < max
At(r, pc) == r \in Reqs /\ reqs[r].pc = pc

\* the party lookup without its status test
PartyGateNoEnded(q) ==
    IF q.code \notin DOMAIN parties THEN "NotFound" ELSE "pass"

\* the party lookup every handler starts with, and its two early returns
PartyGate(q) ==
    IF q.code \notin DOMAIN parties THEN "NotFound"
    ELSE IF parties[q.code].status = "ENDED" THEN "AlreadyEnded"
    ELSE "pass"

(* -------------------------- emitPartySnapshot -------------------------- *)

\* the sockets in the room of a code
Audience(code) == { s \in Sockets : <<s, code>> \in rooms }

\* await getPartySnapshot(code) inside emitPartySnapshot: the read.  With no
\* socket in the room the emits that follow reach nobody and the rest of the
\* handler touches nothing shared, so the answer is taken in the same step
ReadSnapshot(r, from, to) ==
    /\ At(r, from)
    /\ reqs' = [reqs EXCEPT ![r] =
                  IF Audience(reqs[r].code) = {}
                  THEN Respond(reqs[r], "OK")
                  ELSE [reqs[r] EXCEPT !.pc = to,
                                       !.snap = GetPartySnapshot(reqs[r].code)]]
    /\ UNCHANGED <<db, now, io>>

\* the handler resumes with the snapshot: it sends evs to the room and
\* answers
PublishAndRespond(r, from, evs) ==
    /\ At(r, from)
    /\ inbox' = Emit(reqs[r].code, evs)
    /\ reqs' = [reqs EXCEPT ![r] = Respond(reqs[r], "OK")]
    /\ UNCHANGED <<db, now, rooms>>

\* a statement issued after the handler's write (vote.count, the read of
\* emitPartySnapshot) rejects: the catch block answers 500
StorageFault(r) ==
    /\ r \in Reqs
    /\ reqs[r].pc \in { "join_snap", "add_snap", "vote_count", "vote_snap",
                        "cur_snap", "pb_snap", "end_snap" }
    /\ reqs' = [reqs EXCEPT ![r] = Respond(reqs[r], "Failure")]
    /\ UNCHANGED <<db, now, io>>

(* ------------------------ GET /api/parties/:code ----------------------- *)

\* the code upper-cased; nothing else is read from the request
GetArrive(max, code) ==
    /\ MayArrive(max)
    /\ reqs' = Append(reqs, [NewReq("Get", code, NoCaller, EmptyId, "", NaN)
                               EXCEPT !.pc = "get_read"])
    /\ UNCHANGED <<db, now, io>>

\* await getPartySnapshot(code)
GetRead(r) ==
    /\ At(r, "get_read")
    /\ reqs' = [reqs EXCEPT ![r] =
                  [reqs[r] EXCEPT !.pc = "get_answer",
                                  !.snap = GetPartySnapshot(reqs[r].code)]]
    /\ UNCHANGED <<db, now, io>>

\* 404 for null, else 200 with the snapshot as the body
GetAnswer(r) ==
    /\ At(r, "get_answer")
    /\ LET q == reqs[r] IN
       reqs' = [reqs EXCEPT ![r] =
                  IF ~q.snap.found THEN Respond(q, "NotFound")
                  ELSE [Respond(q, "OK") EXCEPT !.snap = q.snap]]
    /\ UNCHANGED <<db, now, io>>

(* ------------------------ socket party:join-room ----------------------- *)

\* socket.emit: the event goes to this socket alone
SendTo(sock, ev) == [inbox EXCEPT ![sock] = Append(@, ev)]

\* String(payload?.partyCode ?? "").toUpperCase(); an empty code returns
\* at once without an answer
SubscribeArrive(max, sock, code) ==
    /\ MayArrive(max)
    /\ LET q == [NewReq("Sub", code, NoCaller, EmptyId, "", NaN)
                    EXCEPT !.sock = sock]
       IN reqs' = Append(reqs, IF q.code = "" THEN Respond(q, "Ignored")
                               ELSE [q EXCEPT !.pc = "sub_read"])
    /\ UNCHANGED <<db, now, io>>

\* await getPartySnapshot(partyCode)
SubscribeRead(r) ==
    /\ At(r, "sub_read")
    /\ reqs' = [reqs EXCEPT ![r] =
                  [reqs[r] EXCEPT !.pc = "sub_answer",
                                  !.snap = GetPartySnapshot(reqs[r].code)]]
    /\ UNCHANGED <<db, now, io>>

\* the handler that joins the room before it looks at the snapshot
SubscribeAnswerJoinsFirst(r) ==
    /\ At(r, "sub_answer")
    /\ LET q == reqs[r] IN
       /\ rooms' = rooms \cup { <<q.sock, q.code>> }
       /\ IF ~q.snap.found
          THEN /\ inbox' = SendTo(q.sock, Event("party:not-found", q.code, r,
                                                [ partyCode |-> q.code ]))
               /\ reqs' = [reqs EXCEPT ![r] = Respond(q, "NotFound")]
          ELSE /\ inbox' = SendTo(q.sock,
                                  Event("party:snapshot", q.code, r, q.snap))
               /\ reqs' = [reqs EXCEPT ![r] = Respond(q, "OK")]
    /\ UNCHANGED <<db, now>>

\* null: party:not-found to the socket; else socket.join(partyCode) and
\* party:snapshot to the socket
SubscribeAnswer(r) ==
    /\ At(r, "sub_answer")
    /\ LET q == reqs[r] IN
       IF ~q.snap.found
       THEN /\ inbox' = SendTo(q.sock, Event("party:not-found", q.code, r,
                                             [ partyCode |-> q.code ]))
            /\ rooms' = rooms
            /\ reqs' = [reqs EXCEPT ![r] = Respond(q, "NotFound")]
       ELSE /\ rooms' = rooms \cup { <<q.sock, q.code>> }
            /\ inbox' = SendTo(q.sock,
                               Event("party:snapshot", q.code, r, q.snap))
            /\ reqs' = [reqs EXCEPT ![r] = Respond(q, "OK")]
    /\ UNCHANGED <<db, now>>

(* -------------------------- POST /api/parties -------------------------- *)

\* name and hostName trimmed, both required; maxSongs as parsed
CreateArrive(max, pname, hostName, maxSongs) ==
    /\ MayArrive(max)
    /\ LET q == [NewReq("Create", "", NoCaller, EmptyId, "", NaN) EXCEPT
                    !.pname = Trim(pname), !.name = Trim(hostName),
                    !.max = maxSongs]
       IN reqs' = Append(reqs, IF q.pname = "" \/ q.name = ""
                               THEN Respond(q, "Validation")
                               ELSE [q EXCEPT !.pc = "gen"])
    /\ UNCHANGED <<db, now, io>>

\* generatePartyCode that returns its tenth candidate though it is taken
CreateTryCodeTakesLast(r) ==
    /\ At(r, "gen")
    /\ \E code \in CodeSpace :
          LET q == reqs[r] IN
          reqs' = [reqs EXCEPT ![r] =
                     IF code \notin DOMAIN parties \/ q.i + 1 >= MaxAttempts
                     THEN [q EXCEPT !.pc = "tx", !.code = code, !.i = 0]
                     ELSE [q EXCEPT !.i = q.i + 1]]
    /\ UNCHANGED <<db, now, io>>

\* one round of generatePartyCode's loop: a random code and
\* party.findUnique on it; the tenth taken code throws
CreateTryCode(r) ==
    /\ At(r, "gen")
    /\ \E code \in CodeSpace :
          LET q == reqs[r] IN
          reqs' = [reqs EXCEPT ![r] =
                     IF code \notin DOMAIN parties
                     THEN [q EXCEPT !.pc = "tx", !.code = code, !.i = 0]
                     ELSE IF q.i + 1 >= MaxAttempts
                          THEN Respond(q, "Failure")
                          ELSE [q EXCEPT !.i = q.i + 1]]
    /\ UNCHANGED <<db, now, io>>

\* the transaction that keeps the host's row when party.create fails
CreateTransactionNoRollback(r) ==
    /\ At(r, "tx")
    /\ LET q == reqs[r]
           host == [ id |-> NewParticipantId, partyId |-> q.code,
                     name |-> q.name, isHost |-> TRUE ]
       IN /\ participants' = participants \cup {host}
          /\ IF CodeUniqueOk(q.code)
             THEN /\ parties' = [ c \in DOMAIN parties \cup {q.code} |->
                                    IF c = q.code THEN NewParty(q.max, host.id)
                                    ELSE parties[c] ]
                  /\ reqs' = [reqs EXCEPT ![r] =
                                Respond([q EXCEPT !.newPid = host.id], "OK")]
             ELSE /\ parties' = parties
                  /\ reqs' = [reqs EXCEPT ![r] = Respond(q, "Failure")]
    /\ UNCHANGED <<songs, votes, nextVoteId, now, io>>

\* prisma.$transaction: party.create, participant.create and the host
\* link commit together, or a taken code throws and nothing is written;
\* then 201, or 500 from the catch block
CreateTransaction(r) ==
    /\ At(r, "tx")
    /\ LET q == reqs[r]
           host == [ id |-> NewParticipantId, partyId |-> q.code,
                     name |-> q.name, isHost |-> TRUE ]
       IN IF CodeUniqueOk(q.code)
          THEN /\ parties' = [ c \in DOMAIN parties \cup {q.code} |->
                                 IF c = q.code THEN NewParty(q.max, host.id)
                                 ELSE parties[c] ]
               /\ participants' = participants \cup {host}
               /\ reqs' = [reqs EXCEPT ![r] =
                             Respond([q EXCEPT !.newPid = host.id], "OK")]
          ELSE /\ UNCHANGED <<parties, participants>>
               /\ reqs' = [reqs EXCEPT ![r] = Respond(q, "Failure")]
    /\ UNCHANGED <<songs, votes, nextVoteId, now, io>>

(* ------------------------- POST /:code/join ---------------------------- *)

JoinArrive(max, code, name) ==
    /\ MayArrive(max)
    /\ LET q == [NewReq("Join", code, NoCaller, EmptyId, "", NaN) EXCEPT
                    !.name = Trim(name),
                    !.atTaken = ~NameUniqueOk(ToUpper(code), Trim(name))]
       IN reqs' = Append(reqs, IF q.name = "" THEN Respond(q, "Validation")
                               ELSE [q EXCEPT !.pc = "join_party"])
    /\ UNCHANGED <<db, now, io>>

JoinReadParty(r) ==
    /\ At(r, "join_party")
    /\ LET q == reqs[r] IN
       reqs' = [reqs EXCEPT ![r] =
                  IF PartyGate(q) # "pass" THEN Respond(q, PartyGate(q))
                  ELSE [q EXCEPT !.pc = "join_create"]]
    /\ UNCHANGED <<db, now, io>>

\* participant.create with isHost: true
JoinCreateAsHost(r) ==
    /\ At(r, "join_create")
    /\ LET q == reqs[r]
           id == NewParticipantId
       IN IF NameUniqueOk(q.code, q.name)
          THEN /\ participants' = participants \cup
                     {[ id |-> id, partyId |-> q.code, name |-> q.name,
                        isHost |-> TRUE ]}
               /\ reqs' = [reqs EXCEPT ![r] =
                             [q EXCEPT !.pc = "join_snap", !.newPid = id]]
          ELSE /\ participants' = participants
               /\ reqs' = [reqs EXCEPT ![r] = Respond(q, "NameTaken")]
    /\ UNCHANGED <<parties, songs, votes, nextVoteId, now, io>>

\* participant.create; P2002 from the name index is answered 409
JoinCreate(r) ==
    /\ At(r, "join_create")
    /\ LET q == reqs[r]
           id == NewParticipantId
       IN IF NameUniqueOk(q.code, q.name)
          THEN /\ participants' = participants \cup
                     {[ id |-> id, partyId |-> q.code, name |-> q.name,
                        isHost |-> FALSE ]}
               /\ reqs' = [reqs EXCEPT ![r] =
                             [q EXCEPT !.pc = "join_snap", !.newPid = id]]
          ELSE /\ participants' = participants
               /\ reqs' = [reqs EXCEPT ![r] = Respond(q, "NameTaken")]
    /\ UNCHANGED <<parties, songs, votes, nextVoteId, now, io>>

\* emitPartySnapshot: the read
JoinSnapshot(r) == ReadSnapshot(r, "join_snap", "join_pub")

\* party:snapshot, 200 { party, participant }
JoinPublish(r) == PublishAndRespond(r, "join_pub", SnapshotEvents(r))

(* ------------------------- POST /:code/songs --------------------------- *)

\* title and artist are taken as present: participantId stands for the
\* required fields
AddItemArrive(max, code, pid) ==
    /\ MayArrive(max)
    /\ LET q == NewReq("AddItem", code, pid, EmptyId, "", NaN) IN
       reqs' = Append(reqs, IF pid = NoCaller THEN Respond(q, "Validation")
                            ELSE [q EXCEPT !.pc = "add_party"])
    /\ UNCHANGED <<db, now, io>>

\* party.findUnique({ include: { songs } }) and the checks on the row
AddItemReadParty(r) ==
    /\ At(r, "add_party")
    /\ LET q == reqs[r] IN
       reqs' = [reqs EXCEPT ![r] =
                  IF PartyGate(q) # "pass" THEN Respond(q, PartyGate(q))
                  ELSE [q EXCEPT !.pc = "add_member",
                                 !.cnt = Cardinality(PartySongs(q.code)),
                                 !.max = parties[q.code].maxSongs]]
    /\ UNCHANGED <<db, now, io>>

\* the capacity test with > for >=
QueueFullOffByOne(cnt, max) == max # NULL /\ cnt > max

\* maxSongs is set and party.songs.length has reached it
QueueFull(cnt, max) == max # NULL /\ cnt >= max

\* participant.findFirst, the capacity check and the position
AddItemCheckMember(r) ==
    /\ At(r, "add_member")
    /\ LET q == reqs[r] IN
       reqs' = [reqs EXCEPT ![r] =
                  IF ~IsMember(q.code, q.pid) THEN Respond(q, "NotMember")
                  ELSE IF QueueFull(q.cnt, q.max) THEN Respond(q, "QueueFull")
                  ELSE [q EXCEPT !.pc = "add_create", !.qpos = q.cnt + 1]]
    /\ UNCHANGED <<db, now, io>>

\* song.create; a unique-index violation throws into the catch block
AddItemCreate(r) ==
    /\ At(r, "add_create")
    /\ LET q == reqs[r]
           id == Cardinality(songs) + 1
       IN IF SongUniqueOk(q.code, q.qpos)
          THEN /\ songs' = songs \cup
                     {[ id |-> id, partyId |-> q.code, addedById |-> q.pid,
                        queuePosition |-> q.qpos ]}
               /\ reqs' = [reqs EXCEPT ![r] =
                             [q EXCEPT !.pc = "add_snap", !.newSong = id]]
          ELSE /\ songs' = songs
               /\ reqs' = [reqs EXCEPT ![r] = Respond(q, "Failure")]
    /\ UNCHANGED <<parties, participants, votes, nextVoteId, now, io>>

\* emitPartySnapshot: the read
AddItemSnapshot(r) == ReadSnapshot(r, "add_snap", "add_pub")

\* party:snapshot, then queue:updated, 201
AddItemPublish(r) ==
    PublishAndRespond(r, "add_pub",
        SnapshotEvents(r) \o
        << Event("queue:updated", reqs[r].code, r,
                 [ songId |-> reqs[r].newSong ]) >>)

(* ------------------------- POST /:code/votes --------------------------- *)

VoteArrive(max, code, pid, sid) ==
    /\ MayArrive(max)
    /\ LET q == NewReq("Vote", code, pid, sid, "", NaN) IN
       reqs' = Append(reqs, IF pid = NoCaller \/ sid = EmptyId
                            THEN Respond(q, "Validation")
                            ELSE [q EXCEPT !.pc = "vote_party"])
    /\ UNCHANGED <<db, now, io>>

VoteReadParty(r) ==
    /\ At(r, "vote_party")
    /\ LET q == reqs[r] IN
       reqs' = [reqs EXCEPT ![r] =
                  IF PartyGate(q) # "pass" THEN Respond(q, PartyGate(q))
                  ELSE [q EXCEPT !.pc = "vote_lookup"]]
    /\ UNCHANGED <<db, now, io>>

\* what follows Promise.all once both lookups have answered
VoteAfterLookup(q) ==
    IF q.pFound = "unk" \/ q.sFound = "unk" THEN q
    ELSE IF q.pFound = "no" THEN Respond(q, "NotMember")
    ELSE IF q.sFound = "no" THEN Respond(q, "SongNotFound")
    ELSE [q EXCEPT !.pc = "vote_find"]

\* Promise.all([participant.findFirst, song.findFirst]): two statements
\* that the database may run in either order
VoteFindParticipant(r) ==
    /\ At(r, "vote_lookup")
    /\ reqs[r].pFound = "unk"
    /\ LET q == reqs[r] IN
       reqs' = [reqs EXCEPT ![r] = VoteAfterLookup(
                  [q EXCEPT !.pFound = IF IsMember(q.code, q.pid)
                                       THEN "yes" ELSE "no"])]
    /\ UNCHANGED <<db, now, io>>

VoteFindSong(r) ==
    /\ At(r, "vote_lookup")
    /\ reqs[r].sFound = "unk"
    /\ LET q == reqs[r] IN
       reqs' = [reqs EXCEPT ![r] = VoteAfterLookup(
                  [q EXCEPT !.sFound = IF SongInParty(q.code, q.sid)
                                       THEN "yes" ELSE "no"])]
    /\ UNCHANGED <<db, now, io>>

\* vote.findFirst filtering on songId alone
ExistingVoteAnyVoter(sid, pid) == { v \in votes : v.songId = sid }

\* the rows vote.findFirst({ where: { songId, participantId } }) matches
ExistingVote(sid, pid) ==
    { v \in votes : v.songId = sid /\ v.participantId = pid }

\* vote.findFirst: the row's id, or EmptyId for null
VoteFindExisting(r) ==
    /\ At(r, "vote_find")
    /\ LET q == reqs[r]
           found == ExistingVote(q.sid, q.pid)
       IN reqs' = [reqs EXCEPT ![r] =
                     [q EXCEPT !.pc = "vote_write",
                               !.existing = IF found = {} THEN EmptyId
                                            ELSE (CHOOSE v \in found : TRUE).id]]
    /\ UNCHANGED <<db, now, io>>

\* vote.delete({ where: { id } }) when a row was found, vote.create
\* otherwise; deleting a row that is gone and inserting a duplicate throw
VoteWrite(r) ==
    /\ At(r, "vote_write")
    /\ LET q == reqs[r] IN
       IF q.existing # EmptyId
       THEN IF \E v \in votes : v.id = q.existing
            THEN /\ votes' = { v \in votes : v.id # q.existing }
                 /\ nextVoteId' = nextVoteId
                 /\ reqs' = [reqs EXCEPT ![r] =
                               [q EXCEPT !.pc = "vote_count", !.voted = FALSE]]
            ELSE /\ UNCHANGED <<votes, nextVoteId>>
                 /\ reqs' = [reqs EXCEPT ![r] = Respond(q, "Failure")]
       ELSE IF VoteUniqueOk(q.sid, q.pid)
            THEN /\ votes' = votes \cup
                       {[ id |-> nextVoteId, partyId |-> q.code,
                          songId |-> q.sid, participantId |-> q.pid ]}
                 /\ nextVoteId' = nextVoteId + 1
                 /\ reqs' = [reqs EXCEPT ![r] =
                               [q EXCEPT !.pc = "vote_count", !.voted = TRUE]]
            ELSE /\ UNCHANGED <<votes, nextVoteId>>
                 /\ reqs' = [reqs EXCEPT ![r] = Respond(q, "Failure")]
    /\ UNCHANGED <<parties, participants, songs, now, io>>

\* vote.count({ where: { songId } }), then votes:updated
VoteCount(r) ==
    /\ At(r, "vote_count")
    /\ LET q == reqs[r]
           n == Cardinality(SongVotes(q.sid))
       IN /\ reqs' = [reqs EXCEPT ![r] =
                        [q EXCEPT !.pc = "vote_snap", !.voteCount = n]]
          /\ inbox' = Emit(q.code,
                           << Event("votes:updated", q.code, r,
                                    [ songId |-> q.sid, voteCount |-> n ]) >>)
    /\ UNCHANGED <<db, now, rooms>>

\* emitPartySnapshot: the read
VoteSnapshot(r) == ReadSnapshot(r, "vote_snap", "vote_pub")

\* party:snapshot, 200 { songId, voteCount, voted }
VotePublish(r) == PublishAndRespond(r, "vote_pub", SnapshotEvents(r))

(* ---------------------- POST /:code/current-song ----------------------- *)

SetCurrentArrive(max, code, pid, sid) ==
    /\ MayArrive(max)
    /\ LET q == NewReq("SetCurrent", code, pid, sid, "", NaN) IN
       reqs' = Append(reqs, IF pid = NoCaller \/ sid = EmptyId
                            THEN Respond(q, "Validation")
                            ELSE [q EXCEPT !.pc = "cur_party"])
    /\ UNCHANGED <<db, now, io>>

SetCurrentReadParty(r) ==
    /\ At(r, "cur_party")
    /\ LET q == reqs[r] IN
       reqs' = [reqs EXCEPT ![r] =
                  IF PartyGate(q) # "pass" THEN Respond(q, PartyGate(q))
                  ELSE [q EXCEPT !.pc = "cur_host"]]
    /\ UNCHANGED <<db, now, io>>

SetCurrentCheckHost(r) ==
    /\ At(r, "cur_host")
    /\ LET q == reqs[r] IN
       reqs' = [reqs EXCEPT ![r] =
                  IF ~RequireHost(q.code, q.pid) THEN Respond(q, "NotHost")
                  ELSE [q EXCEPT !.pc = "cur_song"]]
    /\ UNCHANGED <<db, now, io>>

SetCurrentFindSong(r) ==
    /\ At(r, "cur_song")
    /\ LET q == reqs[r] IN
       reqs' = [reqs EXCEPT ![r] =
                  IF ~SongInParty(q.code, q.sid) THEN Respond(q, "SongNotFound")
                  ELSE [q EXCEPT !.pc = "cur_update"]]
    /\ UNCHANGED <<db, now, io>>

\* history: every SetPlayback handler of the party that has read the
\* playback columns and not yet written notes that a reset came in between
NoteReset(code) ==
    [ i \in 1..Len(reqs) |->
        IF reqs[i].code = code /\ reqs[i].pc \in {"pb_host", "pb_update"}
        THEN [reqs[i] EXCEPT !.atReset = TRUE] ELSE reqs[i] ]

\* party.update that pauses without clearing playbackStartedAt
SetCurrentUpdateKeepsStartedAt(r) ==
    /\ At(r, "cur_update")
    /\ LET q == reqs[r] IN
       /\ parties' = [parties EXCEPT ![q.code].currentSongId = q.sid,
                                     ![q.code].playbackStatus = "PAUSED",
                                     ![q.code].playbackOffsetSec = 0]
       /\ reqs' = [NoteReset(q.code) EXCEPT
                     ![r] = [q EXCEPT !.pc = "cur_snap"]]
       /\ inbox' = Emit(q.code,
                        << Event("party:state-updated", q.code, r,
                                 [ currentSongId |-> q.sid,
                                   status |-> parties[q.code].status ]) >>)
    /\ UNCHANGED <<participants, songs, votes, nextVoteId, now, rooms>>

\* party.update that pauses without resetting playbackOffsetSec
SetCurrentUpdateKeepsOffset(r) ==
    /\ At(r, "cur_update")
    /\ LET q == reqs[r] IN
       /\ parties' = [parties EXCEPT ![q.code].currentSongId = q.sid,
                                     ![q.code].playbackStatus = "PAUSED",
                                     ![q.code].playbackStartedAt = NULL]
       /\ reqs' = [NoteReset(q.code) EXCEPT
                     ![r] = [q EXCEPT !.pc = "cur_snap"]]
       /\ inbox' = Emit(q.code,
                        << Event("party:state-updated", q.code, r,
                                 [ currentSongId |-> q.sid,
                                   status |-> parties[q.code].status ]) >>)
    /\ UNCHANGED <<participants, songs, votes, nextVoteId, now, rooms>>

\* party.update: the new current song, and the clock reset; then
\* party:state-updated with the updated row's currentSongId and status
SetCurrentUpdate(r) ==
    /\ At(r, "cur_update")
    /\ LET q == reqs[r] IN
       /\ parties' = [parties EXCEPT ![q.code].currentSongId = q.sid,
                                     ![q.code].playbackStatus = "PAUSED",
                                     ![q.code].playbackStartedAt = NULL,
                                     ![q.code].playbackOffsetSec = 0]
       /\ reqs' = [NoteReset(q.code) EXCEPT
                     ![r] = [q EXCEPT !.pc = "cur_snap"]]
       /\ inbox' = Emit(q.code,
                        << Event("party:state-updated", q.code, r,
                                 [ currentSongId |-> q.sid,
                                   status |-> parties[q.code].status ]) >>)
    /\ UNCHANGED <<participants, songs, votes, nextVoteId, now, rooms>>

\* emitPartySnapshot: the read
SetCurrentSnapshot(r) == ReadSnapshot(r, "cur_snap", "cur_pub")

\* party:snapshot, 200
SetCurrentPublish(r) == PublishAndRespond(r, "cur_pub", SnapshotEvents(r))

(* ------------------------ POST /:code/playback ------------------------- *)

Max0(x) == IF x < 0 THEN 0 ELSE x

SetPlaybackArrive(max, code, pid, act, off) ==
    /\ MayArrive(max)
    /\ LET q == NewReq("SetPlayback", code, pid, EmptyId, act, off) IN
       reqs' = Append(reqs, IF pid = NoCaller \/ act = ""
                            THEN Respond(q, "Validation")
                            ELSE [q EXCEPT !.pc = "pb_party"])
    /\ UNCHANGED <<db, now, io>>

\* party.findUnique with the three playback columns
SetPlaybackReadParty(r) ==
    /\ At(r, "pb_party")
    /\ LET q == reqs[r] IN
       reqs' = [reqs EXCEPT ![r] =
                  IF PartyGate(q) # "pass" THEN Respond(q, PartyGate(q))
                  ELSE [q EXCEPT !.pc = "pb_host",
                          !.rdStatus = parties[q.code].playbackStatus,
                          !.rdStartedAt = parties[q.code].playbackStartedAt,
                          !.rdOffset = parties[q.code].playbackOffsetSec]]
    /\ UNCHANGED <<db, now, io>>

\* currentOffsetSec with elapsedSec left out
CurrentOffsetSecNoElapsed(q, t) == q.rdOffset

\* party.playbackOffsetSec + elapsedSec, from the row read earlier;
\* startedAtMs is tested for truthiness, so null and 0 ms both give 0
CurrentOffsetSec(q, t) ==
    q.rdOffset + (IF q.rdStatus = "PLAYING" /\ q.rdStartedAt # NULL
                     /\ q.rdStartedAt # 0
                  THEN Max0(t - q.rdStartedAt) ELSE 0)

\* the explicit offset taken as it comes, without Math.max(0, ...)
ChosenOffsetSecUnclamped(q, t) ==
    IF q.off # NaN THEN q.off ELSE CurrentOffsetSec(q, t)

\* Number.isFinite(incomingOffsetSec) ? Math.max(0, incoming) : current
ChosenOffsetSec(q, t) ==
    IF q.off # NaN THEN Max0(q.off) ELSE CurrentOffsetSec(q, t)

\* requireHost, then the new playback state computed at `now`; the locals
\* playbackStatus, playbackStartedAt, playbackOffsetSec reuse the rd* fields
SetPlaybackCheckHost(r) ==
    /\ At(r, "pb_host")
    /\ LET q == reqs[r] IN
       reqs' = [reqs EXCEPT ![r] =
                  IF ~RequireHost(q.code, q.pid) THEN Respond(q, "NotHost")
                  ELSE IF q.act = "PLAY"
                       THEN [q EXCEPT !.pc = "pb_update", !.atNow = now,
                                      !.rdStatus = "PLAYING",
                                      !.rdStartedAt = now,
                                      !.rdOffset = ChosenOffsetSec(q, now)]
                  ELSE IF q.act = "PAUSE"
                       THEN [q EXCEPT !.pc = "pb_update", !.atNow = now,
                                      !.rdStatus = "PAUSED",
                                      !.rdStartedAt = NULL,
                                      !.rdOffset = ChosenOffsetSec(q, now)]
                  ELSE Respond(q, "Validation")]
    /\ UNCHANGED <<db, now, io>>

\* party.update with the three playback columns, then
\* party:playback-updated with the columns as written
SetPlaybackUpdate(r) ==
    /\ At(r, "pb_update")
    /\ LET q == reqs[r] IN
       /\ parties' = [parties EXCEPT ![q.code].playbackStatus = q.rdStatus,
                                     ![q.code].playbackStartedAt = q.rdStartedAt,
                                     ![q.code].playbackOffsetSec = q.rdOffset]
       /\ reqs' = [reqs EXCEPT ![r] = [q EXCEPT !.pc = "pb_snap"]]
       /\ inbox' = Emit(q.code,
                        << Event("party:playback-updated", q.code, r,
                                 [ playbackStatus |-> q.rdStatus,
                                   playbackStartedAt |-> q.rdStartedAt,
                                   playbackOffsetSec |-> q.rdOffset ]) >>)
    /\ UNCHANGED <<participants, songs, votes, nextVoteId, now, rooms>>

\* emitPartySnapshot: the read
SetPlaybackSnapshot(r) == ReadSnapshot(r, "pb_snap", "pb_pub")

\* party:snapshot, 200
SetPlaybackPublish(r) == PublishAndRespond(r, "pb_pub", SnapshotEvents(r))

\* the server clock advances between any two statements
Tick(max) ==
    /\ now < max
    /\ now' = now + 1
    /\ UNCHANGED <<db, reqs, io>>

\* the position the next handler derives from a party row at time t
PositionAt(p, t) ==
    CurrentOffsetSec([ rdStatus |-> p.playbackStatus,
                       rdStartedAt |-> p.playbackStartedAt,
                       rdOffset |-> p.playbackOffsetSec ], t)

\* getExpectedOffsetSec with the elapsed time left out
GetExpectedOffsetSecFrozen(p, t) == Max0(p.playbackOffsetSec)

\* the client's getExpectedOffsetSec(party) when its Date.now() reads t
GetExpectedOffsetSec(p, t) ==
    IF p.playbackStatus # "PLAYING" \/ p.playbackStartedAt = NULL
    THEN Max0(p.playbackOffsetSec)
    ELSE Max0(p.playbackOffsetSec + (t - p.playbackStartedAt))

(* -------------------------- POST /:code/end ---------------------------- *)

\* songs in queue order: orderBy: { queuePosition: "asc" }
RECURSIVE ByQueuePosition(_)
ByQueuePosition(S) ==
    IF S = {} THEN <<>>
    ELSE LET first == CHOOSE s \in S :
                        \A t \in S : s.queuePosition < t.queuePosition
                                     \/ (s.queuePosition = t.queuePosition
                                         /\ s.id <= t.id)
         IN <<first>> \o ByQueuePosition(S \ {first})

\* vote.groupBy({ by: songId, where: { partyId } }) read through
\* voteCountMap.get(song.id) ?? 0
VoteCountOf(code, sid) ==
    Cardinality({ v \in PartyVotes(code) : v.songId = sid })

\* the comparator with the tie-break reversed (later position first)
CompareTieLater(a, b) ==
    IF b.voteCount # a.voteCount THEN b.voteCount - a.voteCount
    ELSE b.queuePosition - a.queuePosition

\* the comparator of standings' sort: negative when a goes before b
Compare(a, b) ==
    IF b.voteCount # a.voteCount THEN b.voteCount - a.voteCount
    ELSE a.queuePosition - b.queuePosition

\* Array.prototype.sort: a stable sort by the comparator
RECURSIVE InsertSorted(_, _)
InsertSorted(x, seq) ==
    IF seq = <<>> THEN <<x>>
    ELSE IF Compare(x, Head(seq)) < 0 THEN <<x>> \o seq
    ELSE <<Head(seq)>> \o InsertSorted(x, Tail(seq))

RECURSIVE SortStandings(_)
SortStandings(seq) ==
    IF seq = <<>> THEN <<>>
    ELSE InsertSorted(seq[Len(seq)], SortStandings(SubSeq(seq, 1, Len(seq) - 1)))

\* party.songs.map(...).sort(...).map((song, index) => rank: index + 1)
Standings(code, songSeq) ==
    LET mapped == [ i \in 1..Len(songSeq) |->
                      [ songId |-> songSeq[i].id,
                        voteCount |-> VoteCountOf(code, songSeq[i].id),
                        queuePosition |-> songSeq[i].queuePosition ] ]
        sorted == SortStandings(mapped)
    IN [ i \in 1..Len(sorted) |->
           [ songId |-> sorted[i].songId, voteCount |-> sorted[i].voteCount,
             queuePosition |-> sorted[i].queuePosition, rank |-> i ] ]

\* standings[0] ?? null, as the winning song's id
Winner(st) == IF Len(st) = 0 THEN NULL ELSE st[1].songId

EndArrive(max, code, pid) ==
    /\ MayArrive(max)
    /\ LET q == NewReq("End", code, pid, EmptyId, "", NaN) IN
       reqs' = Append(reqs, IF pid = NoCaller THEN Respond(q, "Validation")
                            ELSE [q EXCEPT !.pc = "end_party"])
    /\ UNCHANGED <<db, now, io>>

\* party.findUnique({ include: { songs: orderBy queuePosition } })
EndReadParty(r) ==
    /\ At(r, "end_party")
    /\ LET q == reqs[r] IN
       reqs' = [reqs EXCEPT ![r] =
                  IF PartyGate(q) # "pass" THEN Respond(q, PartyGate(q))
                  ELSE [q EXCEPT !.pc = "end_host",
                                 !.rdSongs = PartySongs(q.code)]]
    /\ UNCHANGED <<db, now, io>>

EndCheckHost(r) ==
    /\ At(r, "end_host")
    /\ LET q == reqs[r] IN
       reqs' = [reqs EXCEPT ![r] =
                  IF ~RequireHost(q.code, q.pid) THEN Respond(q, "NotHost")
                  ELSE [q EXCEPT !.pc = "end_group"]]
    /\ UNCHANGED <<db, now, io>>

\* vote.groupBy, then standings and winner from the songs read earlier
EndRank(r) ==
    /\ At(r, "end_group")
    /\ LET q == reqs[r]
           st == Standings(q.code, ByQueuePosition(q.rdSongs))
       IN reqs' = [reqs EXCEPT ![r] =
                     [q EXCEPT !.pc = "end_update", !.standings = st,
                               !.winner = Winner(st)]]
    /\ UNCHANGED <<db, now, io>>

\* party.update({ status: "ENDED", endedAt: new Date() }), then
\* party:ended and party:state-updated
EndUpdate(r) ==
    /\ At(r, "end_update")
    /\ LET q == reqs[r] IN
       /\ parties' = [parties EXCEPT ![q.code].status = "ENDED",
                                     ![q.code].endedAt = now]
       /\ reqs' = [reqs EXCEPT ![r] = [q EXCEPT !.pc = "end_snap"]]
       /\ inbox' = Emit(q.code,
                        << Event("party:ended", q.code, r,
                                 [ winner |-> q.winner,
                                   finalStandings |-> q.standings ]),
                           Event("party:state-updated", q.code, r,
                                 [ status |-> "ENDED" ]) >>)
    /\ UNCHANGED <<participants, songs, votes, nextVoteId, now, rooms>>

\* emitPartySnapshot: the read
EndSnapshot(r) == ReadSnapshot(r, "end_snap", "end_pub")

\* party:snapshot, 200 { winner, finalStandings }
EndPublish(r) == PublishAndRespond(r, "end_pub", SnapshotEvents(r))

(* ---------------------------- specifications --------------------------- *)

\* the rows CreateSession and JoinSession leave: party A with its host and
\* one member; the database file outlives the server process
SeedParticipants ==
    { [ id |-> HostId, partyId |-> "A", name |-> "host", isHost |-> TRUE ],
      [ id |-> MemberId, partyId |-> "A", name |-> "mem", isHost |-> FALSE ] }

InitQueue ==
    /\ \E cap \in {NULL, 2} : parties = [ c \in {"A"} |-> NewParty(cap, HostId) ]
    /\ participants = SeedParticipants
    /\ songs = {}
    /\ votes = {}
    /\ nextVoteId = 1
    /\ reqs = <<>>
    /\ now = 1
    /\ rooms = {}
    /\ inbox = NoMail

\* the (code, caller) pairs of an add request: host, member, a stranger
\* and no id on party A, and the member on a code of no party
AddInputs ==
    { <<"a", HostId>>, <<"a", MemberId>>, <<"a", StrangerId>>,
      <<"a", NoCaller>>, <<"B", MemberId>> }

NextQueue ==
    \/ \E in \in AddInputs : AddItemArrive(MaxReqQueue, in[1], in[2])
    \/ \E r \in Reqs : AddItemReadParty(r)
    \/ \E r \in Reqs : AddItemCheckMember(r)
    \/ \E r \in Reqs : AddItemCreate(r)
    \/ \E r \in Reqs : AddItemSnapshot(r)

SpecQueue == InitQueue /\ [][NextQueue]_vars

\* the songs a seeded database holds: n songs of party A at positions 1..n
SeedSongs(n) ==
    { [ id |-> i, partyId |-> "A", addedById |-> MemberId,
        queuePosition |-> i ] : i \in 1..n }

\* the (caller, song id) pairs of a vote request: host and member on song
\* 1, the member on song 2, a stranger, an id of no song, no id
VoteInputs ==
    { <<HostId, 1>>, <<MemberId, 1>>, <<MemberId, 2>>, <<StrangerId, 1>>,
      <<MemberId, 7>>, <<MemberId, EmptyId>>, <<NoCaller, 1>> }

\* the votes a seeded database holds, as (song, participant) pairs
VoteSeeds ==
    { {}, {<<1, HostId>>}, {<<1, HostId>>, <<1, MemberId>>},
      {<<1, HostId>>, <<2, MemberId>>} }

\* Vote rows for the pairs of a seed, with ids 1..n
RECURSIVE SeedVotes(_, _)
SeedVotes(pairs, n) ==
    IF pairs = {} THEN {}
    ELSE LET p == CHOOSE x \in pairs : TRUE IN
         {[ id |-> n, partyId |-> "A", songId |-> p[1], participantId |-> p[2] ]}
            \cup SeedVotes(pairs \ {p}, n + 1)

InitVote ==
    /\ parties = [ c \in {"A"} |-> NewParty(NULL, HostId) ]
    /\ participants = SeedParticipants
    /\ songs = SeedSongs(2)
    /\ \E seed \in VoteSeeds :
          /\ votes = SeedVotes(seed, 1)
          /\ nextVoteId = Cardinality(seed) + 1
    /\ reqs = <<>>
    /\ now = 1
    /\ rooms = {}
    /\ inbox = NoMail

NextVote ==
    \/ \E in \in VoteInputs : VoteArrive(MaxReqVote, "a", in[1], in[2])
    \/ \E r \in Reqs : VoteReadParty(r)
    \/ \E r \in Reqs : VoteFindParticipant(r)
    \/ \E r \in Reqs : VoteFindSong(r)
    \/ \E r \in Reqs : VoteFindExisting(r)
    \/ \E r \in Reqs : VoteWrite(r)
    \/ \E r \in Reqs : VoteCount(r)
    \/ \E r \in Reqs : VoteSnapshot(r)

SpecVote == InitVote /\ [][NextVote]_vars

\* all five mutating operations on one party
Init ==
    /\ parties = [ c \in {"A"} |-> NewParty(NULL, HostId) ]
    /\ participants = SeedParticipants
    /\ songs = SeedSongs(1)
    /\ votes = {}
    /\ nextVoteId = 1
    /\ reqs = <<>>
    /\ now = 1
    /\ rooms = {}
    /\ inbox = NoMail

\* the (caller, song id) pairs of a current-song request in Spec
ItemInputs ==
    { <<HostId, 1>>, <<MemberId, 1>>, <<StrangerId, 1>>, <<HostId, 7>> }

\* the (caller, song id) pairs of a vote request in Spec
BallotInputs == { <<MemberId, 1>>, <<StrangerId, 1>>, <<MemberId, 7>> }

\* the (caller, action, offset) triples of a playback request in Spec
PlaybackInputs ==
    { <<HostId, "PLAY", NaN>>, <<HostId, "PAUSE", 2>>, <<MemberId, "PLAY", NaN>>,
      <<HostId, "STOP", NaN>>, <<NoCaller, "PLAY", NaN>> }

Next ==
    \/ \E pid \in CallerIds : AddItemArrive(MaxReq, "a", pid)
    \/ \E in \in BallotInputs : VoteArrive(MaxReq, "a", in[1], in[2])
    \/ \E in \in ItemInputs : SetCurrentArrive(MaxReq, "a", in[1], in[2])
    \/ \E in \in PlaybackInputs :
          SetPlaybackArrive(MaxReq, "a", in[1], in[2], in[3])
    \/ \E pid \in CallerIds : EndArrive(MaxReq, "a", pid)
    \/ \E r \in Reqs : AddItemReadParty(r)
    \/ \E r \in Reqs : AddItemCheckMember(r)
    \/ \E r \in Reqs : AddItemCreate(r)
    \/ \E r \in Reqs : AddItemSnapshot(r)
    \/ \E r \in Reqs : VoteReadParty(r)
    \/ \E r \in Reqs : VoteFindParticipant(r)
    \/ \E r \in Reqs : VoteFindSong(r)
    \/ \E r \in Reqs : VoteFindExisting(r)
    \/ \E r \in Reqs : VoteWrite(r)
    \/ \E r \in Reqs : VoteCount(r)
    \/ \E r \in Reqs : VoteSnapshot(r)
    \/ \E r \in Reqs : SetCurrentReadParty(r)
    \/ \E r \in Reqs : SetCurrentCheckHost(r)
    \/ \E r \in Reqs : SetCurrentFindSong(r)
    \/ \E r \in Reqs : SetCurrentUpdate(r)
    \/ \E r \in Reqs : SetCurrentSnapshot(r)
    \/ \E r \in Reqs : SetPlaybackReadParty(r)
    \/ \E r \in Reqs : SetPlaybackCheckHost(r)
    \/ \E r \in Reqs : SetPlaybackUpdate(r)
    \/ \E r \in Reqs : SetPlaybackSnapshot(r)
    \/ \E r \in Reqs : EndReadParty(r)
    \/ \E r \in Reqs : EndCheckHost(r)
    \/ \E r \in Reqs : EndRank(r)
    \/ \E r \in Reqs : EndUpdate(r)
    \/ \E r \in Reqs : EndSnapshot(r)

Spec == Init /\ [][Next]_vars

\* the databases a ranking starts from: up to MaxRankSongs songs of party A
\* at positions 1..n, and any set of votes of the two participants on them
InitRank ==
    /\ parties = [ c \in {"A"} |-> NewParty(NULL, HostId) ]
    /\ participants = SeedParticipants
    /\ \E n \in 0..MaxRankSongs :
          /\ songs = SeedSongs(n)
          /\ \E seed \in SUBSET ((1..n) \X {HostId, MemberId}) :
                /\ votes = SeedVotes(seed, 1)
                /\ nextVoteId = Cardinality(seed) + 1
    /\ reqs = <<>>
    /\ now = 1
    /\ rooms = {}
    /\ inbox = NoMail

NextRank ==
    \/ \E pid \in CallerIds : EndArrive(MaxReqRank, "a", pid)
    \/ \E r \in Reqs : EndReadParty(r)
    \/ \E r \in Reqs : EndCheckHost(r)
    \/ \E r \in Reqs : EndRank(r)
    \/ \E r \in Reqs : EndUpdate(r)
    \/ \E r \in Reqs : EndSnapshot(r)

SpecRank == InitRank /\ [][NextRank]_vars

\* the playback columns of a party: as CreateSession leaves them, or as a
\* PLAY with offset 2 at time 1 left them
ClockSeeds ==
    { <<"PAUSED", NULL, 0>>, <<"PLAYING", 1, 2>> }

\* party A as CreateSession leaves it, with one song queued
InitClock ==
    /\ parties = [ c \in {"A"} |-> NewParty(NULL, HostId) ]
    /\ participants = SeedParticipants
    /\ songs = SeedSongs(1)
    /\ votes = {}
    /\ nextVoteId = 1
    /\ reqs = <<>>
    /\ now = 1
    /\ rooms = {}
    /\ inbox = NoMail

\* the (caller, action, offset) triples of a playback request in SpecClock:
\* the host's, with no offset, a positive one and a negative one
ClockInputs ==
    { <<HostId, "PLAY", NaN>>, <<HostId, "PLAY", 2>>, <<HostId, "PLAY", -2>>,
      <<HostId, "PAUSE", NaN>> }

\* the (caller, song id) pairs of a current-song request in SpecClock
ClockItemInputs ==
    { <<HostId, 1>> }

NextClock ==
    \/ \E in \in ClockInputs :
          SetPlaybackArrive(MaxReqClock, "a", in[1], in[2], in[3])
    \/ \E in \in ClockItemInputs :
          SetCurrentArrive(MaxReqClock, "a", in[1], in[2])
    \/ Tick(MaxNow)
    \/ \E r \in Reqs : SetPlaybackReadParty(r)
    \/ \E r \in Reqs : SetPlaybackCheckHost(r)
    \/ \E r \in Reqs : SetPlaybackUpdate(r)
    \/ \E r \in Reqs : SetPlaybackSnapshot(r)
    \/ \E r \in Reqs : SetCurrentReadParty(r)
    \/ \E r \in Reqs : SetCurrentCheckHost(r)
    \/ \E r \in Reqs : SetCurrentFindSong(r)
    \/ \E r \in Reqs : SetCurrentUpdate(r)
    \/ \E r \in Reqs : SetCurrentSnapshot(r)

SpecClock == InitClock /\ [][NextClock]_vars

\* the rows two CreateSession and two JoinSession calls leave: parties A
\* and B, each with its host and one member
SeedTwoParties ==
    SeedParticipants \cup
    { [ id |-> OtherHostId, partyId |-> "B", name |-> "host", isHost |-> TRUE ],
      [ id |-> OtherMemberId, partyId |-> "B", name |-> "mem", isHost |-> FALSE ] }

InitHost ==
    /\ parties = [ c \in {"A", "B"} |->
                     NewParty(NULL, IF c = "A" THEN HostId ELSE OtherHostId) ]
    /\ participants = SeedTwoParties
    /\ songs = SeedSongs(1)
    /\ votes = {}
    /\ nextVoteId = 1
    /\ reqs = <<>>
    /\ now = 1
    /\ rooms = {}
    /\ inbox = NoMail

\* who calls a host-only operation on party A: its host, its member, the
\* host and the member of party B, and an id of no participant
HostCallers == {HostId, MemberId, OtherHostId, OtherMemberId, StrangerId}

\* the (caller, action) pairs of a playback request in SpecHost
HostPlaybackInputs ==
    (HostCallers \X {"PLAY"}) \cup {<<MemberId, "STOP">>, <<OtherHostId, "">>}

NextHost ==
    \/ \E pid \in HostCallers : SetCurrentArrive(MaxReqHost, "a", pid, 1)
    \/ \E in \in HostPlaybackInputs :
          SetPlaybackArrive(MaxReqHost, "a", in[1], in[2], NaN)
    \/ \E pid \in HostCallers : EndArrive(MaxReqHost, "a", pid)
    \/ \E r \in Reqs : SetCurrentReadParty(r)
    \/ \E r \in Reqs : SetCurrentCheckHost(r)
    \/ \E r \in Reqs : SetCurrentFindSong(r)
    \/ \E r \in Reqs : SetCurrentUpdate(r)
    \/ \E r \in Reqs : SetCurrentSnapshot(r)
    \/ \E r \in Reqs : SetPlaybackReadParty(r)
    \/ \E r \in Reqs : SetPlaybackCheckHost(r)
    \/ \E r \in Reqs : SetPlaybackUpdate(r)
    \/ \E r \in Reqs : SetPlaybackSnapshot(r)
    \/ \E r \in Reqs : EndReadParty(r)
    \/ \E r \in Reqs : EndCheckHost(r)
    \/ \E r \in Reqs : EndRank(r)
    \/ \E r \in Reqs : EndUpdate(r)
    \/ \E r \in Reqs : EndSnapshot(r)

SpecHost == InitHost /\ [][NextHost]_vars

\* party A as CreateSession and one JoinSession left it, ACTIVE or ended
\* by an EndSession at time 0
InitLobby ==
    /\ \E st \in {"ACTIVE", "ENDED"} :
          parties = [ c \in {"A"} |->
                        [NewParty(NULL, HostId) EXCEPT
                            !.status = st,
                            !.endedAt = IF st = "ENDED" THEN 0 ELSE NULL] ]
    /\ participants = SeedParticipants
    /\ songs = {}
    /\ votes = {}
    /\ nextVoteId = 1
    /\ reqs = <<>>
    /\ now = 1
    /\ rooms = {}
    /\ inbox = NoMail

\* the (name, hostName, maxSongs) triples of a create request
CreateInputs ==
    { <<"p", "al", NULL>>, <<"p", " al", 2>>, <<"", "al", NULL>>,
      <<"p", " ", NULL>> }

\* the (code, name) pairs of a join request: a free name twice over, the
\* host's name, a blank name, and codes of a party to come and of none
JoinInputs ==
    { <<"a", "al">>, <<"a", " al">>, <<"a", "host">>, <<"a", " ">>,
      <<"b", "al">>, <<"c", "al">> }

NextLobby ==
    \/ \E in \in CreateInputs : CreateArrive(MaxReqLobby, in[1], in[2], in[3])
    \/ \E in \in JoinInputs : JoinArrive(MaxReqLobby, in[1], in[2])
    \/ \E r \in Reqs : CreateTryCode(r)
    \/ \E r \in Reqs : CreateTransaction(r)
    \/ \E r \in Reqs : JoinReadParty(r)
    \/ \E r \in Reqs : JoinCreate(r)
    \/ \E r \in Reqs : JoinSnapshot(r)

SpecLobby == InitLobby /\ [][NextLobby]_vars

\* a party with one queued song and socket s1 in its room
InitEvents ==
    /\ parties = [ c \in {"A"} |-> NewParty(NULL, HostId) ]
    /\ participants = SeedParticipants
    /\ songs = SeedSongs(1)
    /\ votes = {}
    /\ nextVoteId = 1
    /\ reqs = <<>>
    /\ now = 1
    /\ rooms = { <<"s1", "A">> }
    /\ inbox = NoMail

\* adds, votes (one of no song), playback and the end of the party
NextEvents ==
    \/ AddItemArrive(MaxReqEvents, "a", MemberId)
    \/ \E sid \in {1, 7} : VoteArrive(MaxReqEvents, "a", MemberId, sid)
    \/ SetPlaybackArrive(MaxReqEvents, "a", HostId, "PLAY", NaN)
    \/ EndArrive(MaxReqEvents, "a", HostId)
    \/ \E r \in Reqs : AddItemReadParty(r)
    \/ \E r \in Reqs : AddItemCheckMember(r)
    \/ \E r \in Reqs : AddItemCreate(r)
    \/ \E r \in Reqs : AddItemSnapshot(r)
    \/ \E r \in Reqs : AddItemPublish(r)
    \/ \E r \in Reqs : VoteReadParty(r)
    \/ \E r \in Reqs : VoteFindParticipant(r)
    \/ \E r \in Reqs : VoteFindSong(r)
    \/ \E r \in Reqs : VoteFindExisting(r)
    \/ \E r \in Reqs : VoteWrite(r)
    \/ \E r \in Reqs : VoteCount(r)
    \/ \E r \in Reqs : VoteSnapshot(r)
    \/ \E r \in Reqs : VotePublish(r)
    \/ \E r \in Reqs : SetPlaybackReadParty(r)
    \/ \E r \in Reqs : SetPlaybackCheckHost(r)
    \/ \E r \in Reqs : SetPlaybackUpdate(r)
    \/ \E r \in Reqs : SetPlaybackSnapshot(r)
    \/ \E r \in Reqs : SetPlaybackPublish(r)
    \/ \E r \in Reqs : EndReadParty(r)
    \/ \E r \in Reqs : EndCheckHost(r)
    \/ \E r \in Reqs : EndRank(r)
    \/ \E r \in Reqs : EndUpdate(r)
    \/ \E r \in Reqs : EndSnapshot(r)
    \/ \E r \in Reqs : EndPublish(r)

SpecEvents == InitEvents /\ [][NextEvents]_vars

\* adds, votes and song changes, with storage that may fail a statement
\* issued after a handler's write
NextFault ==
    \/ AddItemArrive(MaxReqEvents, "a", MemberId)
    \/ VoteArrive(MaxReqEvents, "a", MemberId, 1)
    \/ SetCurrentArrive(MaxReqEvents, "a", HostId, 1)
    \/ \E r \in Reqs : AddItemReadParty(r)
    \/ \E r \in Reqs : AddItemCheckMember(r)
    \/ \E r \in Reqs : AddItemCreate(r)
    \/ \E r \in Reqs : AddItemSnapshot(r)
    \/ \E r \in Reqs : AddItemPublish(r)
    \/ \E r \in Reqs : VoteReadParty(r)
    \/ \E r \in Reqs : VoteFindParticipant(r)
    \/ \E r \in Reqs : VoteFindSong(r)
    \/ \E r \in Reqs : VoteFindExisting(r)
    \/ \E r \in Reqs : VoteWrite(r)
    \/ \E r \in Reqs : VoteCount(r)
    \/ \E r \in Reqs : VoteSnapshot(r)
    \/ \E r \in Reqs : VotePublish(r)
    \/ \E r \in Reqs : SetCurrentReadParty(r)
    \/ \E r \in Reqs : SetCurrentCheckHost(r)
    \/ \E r \in Reqs : SetCurrentFindSong(r)
    \/ \E r \in Reqs : SetCurrentUpdate(r)
    \/ \E r \in Reqs : SetCurrentSnapshot(r)
    \/ \E r \in Reqs : SetCurrentPublish(r)
    \/ \E r \in Reqs : StorageFault(r)

SpecFault == InitEvents /\ [][NextFault]_vars

\* parties A and B, each with host, member, one song and a subscribed
\* socket; B's member has voted for B's song, which is current in B,
\* paused or playing
InitTwo ==
    /\ \E seed \in ClockSeeds :
          parties = [ c \in {"A", "B"} |->
                        IF c = "A" THEN NewParty(NULL, HostId)
                        ELSE [NewParty(NULL, OtherHostId) EXCEPT
                                 !.currentSongId = 2,
                                 !.playbackStatus = seed[1],
                                 !.playbackStartedAt = seed[2],
                                 !.playbackOffsetSec = seed[3]] ]
    /\ participants = SeedTwoParties
    /\ songs = SeedSongs(1) \cup
               { [ id |-> 2, partyId |-> "B", addedById |-> OtherMemberId,
                   queuePosition |-> 1 ] }
    /\ votes = { [ id |-> 1, partyId |-> "B", songId |-> 2,
                   participantId |-> OtherMemberId ] }
    /\ nextVoteId = 2
    /\ reqs = <<>>
    /\ now = 1
    /\ rooms = { <<"s1", "A">>, <<"s2", "B">> }
    /\ inbox = NoMail

\* the (caller, song id) pairs sent to party A in SpecTwo: A's own, B's
\* song with A's caller, and A's song with B's caller
TwoVoteInputs == { <<MemberId, 1>>, <<MemberId, 2>>, <<OtherMemberId, 1>> }
TwoCurrentInputs == { <<HostId, 1>>, <<HostId, 2>>, <<OtherHostId, 1>> }

\* every operation, addressed to party A, by participants of A and of B
NextTwo ==
    \/ JoinArrive(MaxReqTwo, "a", "al")
    \/ \E pid \in {MemberId, OtherMemberId} : AddItemArrive(MaxReqTwo, "a", pid)
    \/ \E in \in TwoVoteInputs : VoteArrive(MaxReqTwo, "a", in[1], in[2])
    \/ \E in \in TwoCurrentInputs :
          SetCurrentArrive(MaxReqTwo, "a", in[1], in[2])
    \/ \E pid \in {HostId, OtherHostId} :
          SetPlaybackArrive(MaxReqTwo, "a", pid, "PLAY", NaN)
    \/ \E pid \in {HostId, OtherHostId} : EndArrive(MaxReqTwo, "a", pid)
    \/ \E r \in Reqs : JoinReadParty(r)
    \/ \E r \in Reqs : JoinCreate(r)
    \/ \E r \in Reqs : JoinSnapshot(r)
    \/ \E r \in Reqs : JoinPublish(r)
    \/ \E r \in Reqs : AddItemReadParty(r)
    \/ \E r \in Reqs : AddItemCheckMember(r)
    \/ \E r \in Reqs : AddItemCreate(r)
    \/ \E r \in Reqs : AddItemSnapshot(r)
    \/ \E r \in Reqs : AddItemPublish(r)
    \/ \E r \in Reqs : VoteReadParty(r)
    \/ \E r \in Reqs : VoteFindParticipant(r)
    \/ \E r \in Reqs : VoteFindSong(r)
    \/ \E r \in Reqs : VoteFindExisting(r)
    \/ \E r \in Reqs : VoteWrite(r)
    \/ \E r \in Reqs : VoteCount(r)
    \/ \E r \in Reqs : VoteSnapshot(r)
    \/ \E r \in Reqs : VotePublish(r)
    \/ \E r \in Reqs : SetCurrentReadParty(r)
    \/ \E r \in Reqs : SetCurrentCheckHost(r)
    \/ \E r \in Reqs : SetCurrentFindSong(r)
    \/ \E r \in Reqs : SetCurrentUpdate(r)
    \/ \E r \in Reqs : SetCurrentSnapshot(r)
    \/ \E r \in Reqs : SetCurrentPublish(r)
    \/ \E r \in Reqs : SetPlaybackReadParty(r)
    \/ \E r \in Reqs : SetPlaybackCheckHost(r)
    \/ \E r \in Reqs : SetPlaybackUpdate(r)
    \/ \E r \in Reqs : SetPlaybackSnapshot(r)
    \/ \E r \in Reqs : SetPlaybackPublish(r)
    \/ \E r \in Reqs : EndReadParty(r)
    \/ \E r \in Reqs : EndCheckHost(r)
    \/ \E r \in Reqs : EndRank(r)
    \/ \E r \in Reqs : EndUpdate(r)
    \/ \E r \in Reqs : EndSnapshot(r)
    \/ \E r \in Reqs : EndPublish(r)

SpecTwo == InitTwo /\ [][NextTwo]_vars

\* party A with two songs, two votes on the first and one on the second;
\* no socket in any room
InitSub ==
    /\ parties = [ c \in {"A"} |-> NewParty(NULL, HostId) ]
    /\ participants = SeedParticipants
    /\ songs = SeedSongs(2)
    /\ votes = { [ id |-> 1, partyId |-> "A", songId |-> 1,
                   participantId |-> MemberId ],
                 [ id |-> 2, partyId |-> "A", songId |-> 1,
                   participantId |-> HostId ],
                 [ id |-> 3, partyId |-> "A", songId |-> 2,
                   participantId |-> MemberId ] }
    /\ nextVoteId = 4
    /\ reqs = <<>>
    /\ now = 1
    /\ rooms = {}
    /\ inbox = NoMail

\* the codes a socket sends: the party's in both cases, a code of no
\* party, and none; a GET always has a code
SubCodes == { "a", "A", "b", "" }
GetCodes == { "a", "A", "b" }

\* subscriptions and snapshot reads of a party at rest
NextSub ==
    \/ \E sock \in Sockets, code \in SubCodes :
          SubscribeArrive(MaxReqSub, sock, code)
    \/ \E code \in GetCodes : GetArrive(MaxReqSub, code)
    \/ \E r \in Reqs : SubscribeRead(r)
    \/ \E r \in Reqs : SubscribeAnswer(r)
    \/ \E r \in Reqs : GetRead(r)
    \/ \E r \in Reqs : GetAnswer(r)

SpecSub == InitSub /\ [][NextSub]_vars

\* parties A and B, each with host, member and one song; B's song is
\* current in B; no socket in any room
InitCurrent ==
    /\ parties = [ c \in {"A", "B"} |->
                     IF c = "A" THEN NewParty(NULL, HostId)
                     ELSE [NewParty(NULL, OtherHostId) EXCEPT
                              !.currentSongId = 2] ]
    /\ participants = SeedTwoParties
    /\ songs = SeedSongs(1) \cup
               { [ id |-> 2, partyId |-> "B", addedById |-> OtherMemberId,
                   queuePosition |-> 1 ] }
    /\ votes = {}
    /\ nextVoteId = 1
    /\ reqs = <<>>
    /\ now = 1
    /\ rooms = {}
    /\ inbox = NoMail

\* the (caller, song id) pairs of a current-song request on party A in
\* SpecCurrent: A's host on A's song, on B's song and on the id the next
\* song.create gives, and B's host on B's song
CurrentInputs ==
    { <<HostId, 1>>, <<HostId, 2>>, <<HostId, 3>>, <<OtherHostId, 2>> }

\* current-song requests on party A, while its member adds a song and its
\* host starts playback
NextCurrent ==
    \/ \E in \in CurrentInputs :
          SetCurrentArrive(MaxReqCurrent, "a", in[1], in[2])
    \/ AddItemArrive(MaxReqCurrent, "a", MemberId)
    \/ SetPlaybackArrive(MaxReqCurrent, "a", HostId, "PLAY", 2)
    \/ \E r \in Reqs : SetCurrentReadParty(r)
    \/ \E r \in Reqs : SetCurrentCheckHost(r)
    \/ \E r \in Reqs : SetCurrentFindSong(r)
    \/ \E r \in Reqs : SetCurrentUpdate(r)
    \/ \E r \in Reqs : SetCurrentSnapshot(r)
    \/ \E r \in Reqs : AddItemReadParty(r)
    \/ \E r \in Reqs : AddItemCheckMember(r)
    \/ \E r \in Reqs : AddItemCreate(r)
    \/ \E r \in Reqs : AddItemSnapshot(r)
    \/ \E r \in Reqs : SetPlaybackReadParty(r)
    \/ \E r \in Reqs : SetPlaybackCheckHost(r)
    \/ \E r \in Reqs : SetPlaybackUpdate(r)
    \/ \E r \in Reqs : SetPlaybackSnapshot(r)

SpecCurrent == InitCurrent /\ [][NextCurrent]_vars

\* EndSession calls by the host and by the member of party A, and the
\* host's PLAY, while the server clock runs
NextEnd ==
    \/ \E pid \in {HostId, MemberId} : EndArrive(MaxReqEnd, "a", pid)
    \/ SetPlaybackArrive(MaxReqEnd, "a", HostId, "PLAY", NaN)
    \/ Tick(MaxNow)
    \/ \E r \in Reqs : EndReadParty(r)
    \/ \E r \in Reqs : EndCheckHost(r)
    \/ \E r \in Reqs : EndRank(r)
    \/ \E r \in Reqs : EndUpdate(r)
    \/ \E r \in Reqs : EndSnapshot(r)
    \/ \E r \in Reqs : SetPlaybackReadParty(r)
    \/ \E r \in Reqs : SetPlaybackCheckHost(r)
    \/ \E r \in Reqs : SetPlaybackUpdate(r)
    \/ \E r \in Reqs : SetPlaybackSnapshot(r)

SpecEnd == InitClock /\ [][NextEnd]_vars

\* party A with one song queued, PAUSED as CreateSession leaves it or
\* PLAYING as a PLAY with offset 2 at time 1 left it
InitOffset ==
    /\ \E seed \in ClockSeeds :
          parties = [ c \in {"A"} |->
                        [NewParty(NULL, HostId) EXCEPT
                            !.playbackStatus = seed[1],
                            !.playbackStartedAt = seed[2],
                            !.playbackOffsetSec = seed[3]] ]
    /\ participants = SeedParticipants
    /\ songs = SeedSongs(1)
    /\ votes = {}
    /\ nextVoteId = 1
    /\ reqs = <<>>
    /\ now = 1
    /\ rooms = {}
    /\ inbox = NoMail

\* the (action, offset) pairs of the host's playback requests in
\* SpecOffset: PLAY and PAUSE with a negative, a zero, a positive and no
\* offset
OffsetInputs == {"PLAY", "PAUSE"} \X {-2, 0, 2, NaN}

\* the host's playback and current-song requests on party A while the
\* server clock runs
NextOffset ==
    \/ \E in \in OffsetInputs :
          SetPlaybackArrive(MaxReqOffset, "a", HostId, in[1], in[2])
    \/ SetCurrentArrive(MaxReqOffset, "a", HostId, 1)
    \/ Tick(MaxNow)
    \/ \E r \in Reqs : SetPlaybackReadParty(r)
    \/ \E r \in Reqs : SetPlaybackCheckHost(r)
    \/ \E r \in Reqs : SetPlaybackUpdate(r)
    \/ \E r \in Reqs : SetPlaybackSnapshot(r)
    \/ \E r \in Reqs : SetCurrentReadParty(r)
    \/ \E r \in Reqs : SetCurrentCheckHost(r)
    \/ \E r \in Reqs : SetCurrentFindSong(r)
    \/ \E r \in Reqs : SetCurrentUpdate(r)
    \/ \E r \in Reqs : SetCurrentSnapshot(r)

SpecOffset == InitOffset /\ [][NextOffset]_vars

\* who adds a song to party A in SpecMember: its member, the member of
\* party B, and an id of no participant
MemberAddInputs == { MemberId, OtherMemberId, StrangerId }

\* the (caller, song id) pairs of a vote on party A in SpecMember: A's
\* member on A's song, on B's song and on the id the next song.create
\* gives; B's member on A's song and on B's song; an id of no participant
MemberVoteInputs ==
    { <<MemberId, 1>>, <<MemberId, 2>>, <<MemberId, 3>>,
      <<OtherMemberId, 1>>, <<OtherMemberId, 2>>, <<StrangerId, 1>> }

\* adds and votes addressed to party A by participants of A, of B and of
\* no party
NextMember ==
    \/ \E pid \in MemberAddInputs : AddItemArrive(MaxReqMember, "a", pid)
    \/ \E in \in MemberVoteInputs :
          VoteArrive(MaxReqMember, "a", in[1], in[2])
    \/ \E r \in Reqs : AddItemReadParty(r)
    \/ \E r \in Reqs : AddItemCheckMember(r)
    \/ \E r \in Reqs : AddItemCreate(r)
    \/ \E r \in Reqs : AddItemSnapshot(r)
    \/ \E r \in Reqs : VoteReadParty(r)
    \/ \E r \in Reqs : VoteFindParticipant(r)
    \/ \E r \in Reqs : VoteFindSong(r)
    \/ \E r \in Reqs : VoteFindExisting(r)
    \/ \E r \in Reqs : VoteWrite(r)
    \/ \E r \in Reqs : VoteCount(r)
    \/ \E r \in Reqs : VoteSnapshot(r)

SpecMember == InitCurrent /\ [][NextMember]_vars

(* ------------------------------- claims -------------------------------- *)

Done(r) == reqs[r].pc = "done"
Ok(r) == reqs[r].res = "OK"

\* the request carries every field its handler requires
WellFormed(q) ==
    /\ q.kind \notin {"Create", "Join"} => q.pid # NoCaller
    /\ q.kind \in {"Create", "Join"} => q.name # ""
    /\ q.kind = "Create" => q.pname # ""
    /\ q.kind \in {"Vote", "SetCurrent"} => q.sid # EmptyId
    /\ q.kind = "SetPlayback" => q.act # ""

\* AddItem handlers whose insert has committed
Added == { r \in Reqs : reqs[r].kind = "AddItem" /\ reqs[r].newSong # 0 }

\* C1: in every reachable state, under any interleaving of AddItem
\* handlers, the queue positions of the party's songs are exactly 1..N,
\* without gap or duplicate, N being the number of AddItem calls whose
\* insert has committed
C1_QueuePositionsContiguous ==
    LET S == PartySongs("A") IN
    /\ { s.queuePosition : s \in S } = 1..Cardinality(Added)
    /\ Cardinality(S) = Cardinality(Added)

\* two adds raced for position 2: one holds it, the other was rejected
C1_Witness ==
    /\ { s.queuePosition : s \in PartySongs("A") } = {1, 2}
    /\ \E r \in Reqs : reqs[r].kind = "AddItem" /\ reqs[r].res = "Failure"
                       /\ reqs[r].qpos = 2

\* C2: in every reachable state, under any interleaving of ToggleVote
\* handlers, there is at most one Vote row per (song, participant) pair
C2_OneVotePerPair ==
    \A v, w \in votes :
        (v.songId = w.songId /\ v.participantId = w.participantId) => v = w

\* two toggles of one pair overlapped, both found no row, and one row stands
C2_Witness ==
    \E r1, r2 \in Reqs :
        /\ r1 # r2
        /\ reqs[r1].kind = "Vote" /\ reqs[r2].kind = "Vote"
        /\ reqs[r1].pid = reqs[r2].pid /\ reqs[r1].sid = reqs[r2].sid
        /\ reqs[r1].pc = "vote_count" /\ reqs[r1].voted
        /\ reqs[r2].pc = "vote_write" /\ reqs[r2].existing = EmptyId
        /\ Cardinality(ExistingVote(reqs[r1].sid, reqs[r1].pid)) = 1

\* C3: a well-formed AddItem, ToggleVote, SetCurrentItem, SetPlayback or
\* EndSession request that arrives once the party is ENDED is answered
\* AlreadyEnded, whoever the caller and whatever the song id, and no step
\* of its handler changes the database
C3_RejectedOnceEnded ==
    /\ [](\A r \in Reqs :
            (reqs[r].atEnded /\ WellFormed(reqs[r]) /\ Done(r))
                => reqs[r].res = "AlreadyEnded")
    /\ [][\A r \in Reqs :
            (reqs[r].atEnded /\ reqs'[r] # reqs[r]) => db' = db]_vars

\* an EndSession has answered OK, then the host named an existing song as
\* current: that request arrived on the ended party and was answered
\* AlreadyEnded
C3_Witness ==
    \E e, r \in Reqs :
        /\ reqs[e].kind = "End" /\ Ok(e)
        /\ reqs[r].kind = "SetCurrent" /\ reqs[r].pid = HostId
        /\ reqs[r].sid = 1 /\ reqs[r].atEnded /\ reqs[r].res = "AlreadyEnded"

\* C4: from the state in which the party's status becomes ENDED onward, its
\* songs, votes, participants, current song and playback state never change
C4_ImmutableOnceEnded ==
    [][parties["A"].status = "ENDED" =>
          /\ songs' = songs
          /\ votes' = votes
          /\ participants' = participants
          /\ parties'["A"].currentSongId = parties["A"].currentSongId
          /\ parties'["A"].playbackStatus = parties["A"].playbackStatus
          /\ parties'["A"].playbackStartedAt = parties["A"].playbackStartedAt
          /\ parties'["A"].playbackOffsetSec = parties["A"].playbackOffsetSec
      ]_vars

\* the standings an EndSession answered with: every song of the party once,
\* by vote count descending and queue position ascending, ranked 1..n
RankedRight(q) ==
    LET st == q.standings
        S == PartySongs(q.code)
    IN /\ Len(st) = Cardinality(S)
       /\ { st[i].songId : i \in 1..Len(st) } = { s.id : s \in S }
       /\ \A i \in 1..Len(st) :
            /\ st[i].rank = i
            /\ st[i].voteCount = Cardinality(SongVotes(st[i].songId))
            /\ \E s \in S : s.id = st[i].songId
                            /\ s.queuePosition = st[i].queuePosition
       /\ \A i, j \in 1..Len(st) :
            i < j => \/ st[i].voteCount > st[j].voteCount
                     \/ /\ st[i].voteCount = st[j].voteCount
                        /\ st[i].queuePosition < st[j].queuePosition
       /\ q.winner = (IF Len(st) = 0 THEN NULL ELSE st[1].songId)
       /\ (q.winner = NULL) <=> (S = {})

\* C5: for every set of songs and votes, the standings of a successful
\* EndSession hold every song of the party exactly once, ordered by vote
\* count descending and, among equal counts, queue position ascending, with
\* rank 1..len, and the winner is the first of them, null iff no song
C5_StandingsRanked ==
    \A r \in Reqs : (reqs[r].kind = "End" /\ Ok(r)) => RankedRight(reqs[r])

\* three songs: the last has most votes, the first two tie below it
C5_Witness ==
    \E r \in Reqs :
        /\ reqs[r].kind = "End" /\ Ok(r)
        /\ Len(reqs[r].standings) = 3
        /\ reqs[r].standings[1].songId = 3
        /\ reqs[r].standings[2].songId = 1
        /\ reqs[r].standings[3].songId = 2
        /\ reqs[r].standings[2].voteCount = 1
        /\ reqs[r].standings[3].voteCount = 1

\* C6: a party with a capacity never holds more songs than the capacity,
\* under any interleaving of AddItem handlers; an AddItem that arrives when
\* the count has reached the capacity adds no song, and for a member of the
\* party it is answered QueueFull
C6_CapacityKept ==
    LET cap == parties["A"].maxSongs IN
    cap # NULL =>
        /\ Cardinality(PartySongs("A")) <= cap
        /\ \A r \in Reqs :
              (reqs[r].kind = "AddItem" /\ reqs[r].code = "A"
                 /\ reqs[r].atSongs >= cap) =>
                    /\ reqs[r].newSong = 0
                    /\ reqs[r].pc # "add_create"
                    /\ ~Ok(r)
                    /\ (Done(r) /\ IsMember("A", reqs[r].pid))
                          => reqs[r].res = "QueueFull"

\* capacity 2: two adds succeeded and a third, arriving after them, was
\* answered QueueFull
C6_Witness ==
    /\ parties["A"].maxSongs = 2
    /\ Cardinality(PartySongs("A")) = 2
    /\ \E r \in Reqs : reqs[r].kind = "AddItem" /\ reqs[r].atSongs = 2
                       /\ reqs[r].res = "QueueFull"

\* a vote handler whose delete or insert has committed
Wrote(r) ==
    reqs[r].kind = "Vote" /\ (reqs[r].pc \in {"vote_count", "vote_snap", "vote_pub"} \/ Ok(r))

\* r1 and r2 are consecutive successful toggles of one pair: r1 arrived with
\* no handler open and no vote of the pair, r2 arrived next, after r1 had
\* answered, and no later toggle of that song has written
ConsecutiveToggles(r1, r2) ==
    /\ r2 = r1 + 1
    /\ reqs[r1].kind = "Vote" /\ reqs[r2].kind = "Vote"
    /\ reqs[r1].pid = reqs[r2].pid /\ reqs[r1].sid = reqs[r2].sid
    /\ Ok(r1) /\ Ok(r2)
    /\ reqs[r1].atIdle /\ reqs[r2].atIdle
    /\ <<reqs[r1].sid, reqs[r1].pid>> \notin reqs[r1].atVotes
    /\ \A r3 \in Reqs : (r3 > r2 /\ reqs[r3].sid = reqs[r1].sid) => ~Wrote(r3)

\* C7: two consecutive successful toggles of one (song, participant) pair,
\* starting from no vote and with no other toggle of that song in between,
\* answer voted=true then voted=false and leave the song's votes and its
\* vote count as they were before the first
C7_ToggleTwiceRestores ==
    \A r1, r2 \in Reqs :
        ConsecutiveToggles(r1, r2) =>
            LET s == reqs[r1].sid
                before == { p \in reqs[r1].atVotes : p[1] = s }
            IN /\ reqs[r1].voted
               /\ ~reqs[r2].voted
               /\ { <<v.songId, v.participantId>> : v \in SongVotes(s) } = before
               /\ reqs[r2].voteCount = Cardinality(before)
               /\ reqs[r1].voteCount = Cardinality(before) + 1

\* the member toggled song 1 twice in a row while the host's vote stood
C7_Witness ==
    \E r1, r2 \in Reqs :
        /\ ConsecutiveToggles(r1, r2)
        /\ reqs[r1].pid = MemberId /\ reqs[r1].sid = 1
        /\ reqs[r1].atVotes = {<<1, HostId>>}

\* the caller's rows for the song handler r votes on
OwnVotes(r, vs) ==
    { v \in vs : v.songId = reqs[r].sid /\ v.participantId = reqs[r].pid }

\* C8: the write of a successful ToggleVote removes the caller's Vote row
\* for the song and answers voted=false when one exists, otherwise inserts
\* one and answers voted=true, and changes no other participant's and no
\* other song's rows; the voteCount it answers is the number of the song's
\* rows when it counts them, after the write
C8_ToggleEffect ==
    [][\A r \in Reqs :
         /\ (reqs[r].pc = "vote_write" /\ reqs'[r].pc = "vote_count") =>
               /\ votes' \ OwnVotes(r, votes') = votes \ OwnVotes(r, votes)
               /\ IF OwnVotes(r, votes) # {}
                  THEN OwnVotes(r, votes') = {} /\ ~reqs'[r].voted
                  ELSE Cardinality(OwnVotes(r, votes')) = 1 /\ reqs'[r].voted
         /\ (reqs[r].pc = "vote_count" /\ reqs'[r].pc = "vote_snap") =>
               /\ votes' = votes
               /\ reqs'[r].voteCount =
                     Cardinality({ v \in votes : v.songId = reqs[r].sid })
               /\ reqs'[r].voted = reqs[r].voted
         /\ (reqs[r].pc = "vote_snap" /\ reqs'[r].pc = "vote_pub") =>
               /\ votes' = votes
               /\ reqs'[r].voteCount = reqs[r].voteCount
               /\ reqs'[r].voted = reqs[r].voted
         /\ (reqs[r].pc \in {"vote_snap", "vote_pub"}
               /\ reqs'[r].pc = "done") =>
               /\ votes' = votes
               /\ Ok(r)'
               /\ reqs'[r].voteCount = reqs[r].voteCount
               /\ reqs'[r].voted = reqs[r].voted
      ]_vars

\* the host's vote on song 1 stood; the member voted it (count 2), then the
\* host toggled again (count 1, voted=false)
C8_Witness ==
    /\ Len(reqs) = 2
    /\ reqs[1].kind = "Vote" /\ reqs[1].pid = MemberId /\ reqs[1].sid = 1
    /\ Ok(1) /\ reqs[1].voted /\ reqs[1].voteCount = 2
    /\ reqs[2].kind = "Vote" /\ reqs[2].pid = HostId /\ reqs[2].sid = 1
    /\ Ok(2) /\ ~reqs[2].voted /\ reqs[2].voteCount = 1

\* C9: overlapping toggles of one pair take effect one after the other and
\* both are answered with a typed success: no toggle attempts a duplicate
\* insert or the removal of a row that is already gone
C9_ToggleAtomic ==
    \A r \in Reqs : reqs[r].kind = "Vote" => reqs[r].res # "Failure"

\* C10: no two AddItem handlers of one party compute the same queue
\* position, so none is rejected because another took its position
C10_PositionsSerialized ==
    /\ \A r1, r2 \in Reqs :
          (r1 # r2 /\ reqs[r1].kind = "AddItem" /\ reqs[r2].kind = "AddItem"
             /\ reqs[r1].code = reqs[r2].code
             /\ reqs[r1].qpos # 0 /\ reqs[r2].qpos # 0)
                => reqs[r1].qpos # reqs[r2].qpos
    /\ \A r \in Reqs : reqs[r].kind = "AddItem" => reqs[r].res # "Failure"

(* ------------------- the calls run one after another -------------------- *)

\* the database a run of Spec starts from, as one value
InitDb ==
    [ parties |-> [ c \in {"A"} |-> NewParty(NULL, HostId) ],
      participants |-> SeedParticipants,
      songs |-> SeedSongs(1),
      votes |-> {} ]

\* what a caller is answered: the result and the fields of the response body
Answer(res, newSong, voted, voteCount, standings, winner, pb) ==
    [ res |-> res, newSong |-> newSong, voted |-> voted,
      voteCount |-> voteCount, standings |-> standings, winner |-> winner,
      pb |-> pb ]

Rejected(res) == Answer(res, 0, FALSE, 0, <<>>, 0, <<>>)

\* the answer request r has received
AnswerOf(r) ==
    LET q == reqs[r] IN
    Answer(q.res, q.newSong, q.voted, q.voteCount, q.standings, q.winner,
           IF q.kind = "SetPlayback" /\ q.res = "OK"
           THEN <<q.rdStatus, q.rdStartedAt, q.rdOffset>> ELSE <<>>)

\* the two early returns every call shares, on database d
SeqGate(d, q) ==
    IF ~WellFormed(q) THEN "Validation"
    ELSE IF q.code \notin DOMAIN d.parties THEN "NotFound"
    ELSE IF d.parties[q.code].status = "ENDED" THEN "AlreadyEnded"
    ELSE "pass"

SeqIsMember(d, q) ==
    \E p \in d.participants : p.id = q.pid /\ p.partyId = q.code

SeqIsHost(d, q) ==
    \E p \in d.participants : p.id = q.pid /\ p.partyId = q.code /\ p.isHost

SeqSongInParty(d, q) ==
    \E s \in d.songs : s.id = q.sid /\ s.partyId = q.code

\* AddItem as one uninterrupted call on database d
SeqAddItem(d, q) ==
    LET mine == { s \in d.songs : s.partyId = q.code }
        cnt == Cardinality(mine)
        id == Cardinality(d.songs) + 1
    IN IF ~SeqIsMember(d, q) THEN [ db |-> d, out |-> Rejected("NotMember") ]
       ELSE IF QueueFull(cnt, d.parties[q.code].maxSongs)
            THEN [ db |-> d, out |-> Rejected("QueueFull") ]
       ELSE IF \E s \in mine : s.queuePosition = cnt + 1
            THEN [ db |-> d, out |-> Rejected("Failure") ]
       ELSE [ db |-> [d EXCEPT !.songs = @ \cup
                        {[ id |-> id, partyId |-> q.code, addedById |-> q.pid,
                           queuePosition |-> cnt + 1 ]}],
              out |-> Answer("OK", id, FALSE, 0, <<>>, 0, <<>>) ]

\* ToggleVote as one uninterrupted call; votes are (song, participant) pairs
SeqVote(d, q) ==
    LET pair == <<q.sid, q.pid>>
        after == IF pair \in d.votes THEN d.votes \ {pair}
                 ELSE d.votes \cup {pair}
    IN IF ~SeqIsMember(d, q) THEN [ db |-> d, out |-> Rejected("NotMember") ]
       ELSE IF ~SeqSongInParty(d, q)
            THEN [ db |-> d, out |-> Rejected("SongNotFound") ]
       ELSE [ db |-> [d EXCEPT !.votes = after],
              out |-> Answer("OK", 0, pair \notin d.votes,
                             Cardinality({ v \in after : v[1] = q.sid }),
                             <<>>, 0, <<>>) ]

\* SetCurrentItem as one uninterrupted call
SeqSetCurrent(d, q) ==
    IF ~SeqIsHost(d, q) THEN [ db |-> d, out |-> Rejected("NotHost") ]
    ELSE IF ~SeqSongInParty(d, q)
         THEN [ db |-> d, out |-> Rejected("SongNotFound") ]
    ELSE [ db |-> [d EXCEPT !.parties[q.code].currentSongId = q.sid,
                            !.parties[q.code].playbackStatus = "PAUSED",
                            !.parties[q.code].playbackStartedAt = NULL,
                            !.parties[q.code].playbackOffsetSec = 0],
           out |-> Rejected("OK") ]

\* SetPlayback as one uninterrupted call at time t
SeqSetPlayback(d, q, t) ==
    LET p == d.parties[q.code]
        cur == p.playbackOffsetSec
                 + (IF p.playbackStatus = "PLAYING" /\ p.playbackStartedAt # NULL
                       /\ p.playbackStartedAt # 0
                    THEN Max0(t - p.playbackStartedAt) ELSE 0)
        base == IF q.off # NaN THEN Max0(q.off) ELSE cur
        st == IF q.act = "PLAY" THEN "PLAYING" ELSE "PAUSED"
        at == IF q.act = "PLAY" THEN t ELSE NULL
    IN IF ~SeqIsHost(d, q) THEN [ db |-> d, out |-> Rejected("NotHost") ]
       ELSE IF q.act \notin {"PLAY", "PAUSE"}
            THEN [ db |-> d, out |-> Rejected("Validation") ]
       ELSE [ db |-> [d EXCEPT !.parties[q.code].playbackStatus = st,
                               !.parties[q.code].playbackStartedAt = at,
                               !.parties[q.code].playbackOffsetSec = base],
              out |-> Answer("OK", 0, FALSE, 0, <<>>, 0, <<st, at, base>>) ]

\* the ranking of database d's songs of a party by its votes
SeqStandings(d, code) ==
    LET songSeq == ByQueuePosition({ s \in d.songs : s.partyId = code })
        mapped == [ i \in 1..Len(songSeq) |->
                      [ songId |-> songSeq[i].id,
                        voteCount |-> Cardinality(
                            { v \in d.votes : v[1] = songSeq[i].id }),
                        queuePosition |-> songSeq[i].queuePosition ] ]
        sorted == SortStandings(mapped)
    IN [ i \in 1..Len(sorted) |->
           [ songId |-> sorted[i].songId, voteCount |-> sorted[i].voteCount,
             queuePosition |-> sorted[i].queuePosition, rank |-> i ] ]

\* EndSession as one uninterrupted call at time t
SeqEnd(d, q, t) ==
    LET st == SeqStandings(d, q.code) IN
    IF ~SeqIsHost(d, q) THEN [ db |-> d, out |-> Rejected("NotHost") ]
    ELSE [ db |-> [d EXCEPT !.parties[q.code].status = "ENDED",
                            !.parties[q.code].endedAt = t],
           out |-> Answer("OK", 0, FALSE, 0, st, Winner(st), <<>>) ]

\* one call, start to finish, on database d at time t
SeqCall(d, q, t) ==
    IF SeqGate(d, q) # "pass" THEN [ db |-> d, out |-> Rejected(SeqGate(d, q)) ]
    ELSE IF q.kind = "AddItem" THEN SeqAddItem(d, q)
    ELSE IF q.kind = "Vote" THEN SeqVote(d, q)
    ELSE IF q.kind = "SetCurrent" THEN SeqSetCurrent(d, q)
    ELSE IF q.kind = "SetPlayback" THEN SeqSetPlayback(d, q, t)
    ELSE SeqEnd(d, q, t)

\* the calls order[k..] run one after another from database d: the final
\* database and every call's answer
RECURSIVE SeqRun(_, _, _, _)
SeqRun(d, order, k, outs) ==
    IF k > Len(order) THEN [ db |-> d, outs |-> outs ]
    ELSE LET step == SeqCall(d, reqs[order[k]], now) IN
         SeqRun(step.db, order, k + 1,
                [outs EXCEPT ![order[k]] = step.out])

\* the orders in which n calls can be run one after another
Orders(n) ==
    { f \in [1..n -> 1..n] : \A i, j \in 1..n : f[i] = f[j] => i = j }

\* the database as the sequential run describes one: votes as pairs
DbNow ==
    [ parties |-> parties, participants |-> participants, songs |-> songs,
      votes |-> { <<v.songId, v.participantId>> : v \in votes } ]

\* C11: once every handler has answered, the answers and the database equal
\* those of the same calls run one after another in some order
C11_Linearizable ==
    (\A r \in Reqs : Done(r)) =>
        \E order \in Orders(Len(reqs)) :
            LET run == SeqRun(InitDb, order, 1, [ r \in Reqs |-> Rejected("") ])
            IN /\ run.db = DbNow
               /\ \A r \in Reqs : run.outs[r] = AnswerOf(r)

\* C12: at most one EndSession call of a party gets as far as computing
\* standings and writing ENDED, and so at most one succeeds and announces
\* the end; every other is answered AlreadyEnded
C12_EndsOnce ==
    /\ Cardinality({ r \in Reqs : reqs[r].kind = "End"
                        /\ (reqs[r].pc \in {"end_update", "end_snap", "end_pub"}
                            \/ Ok(r)) }) <= 1
    /\ \A r1, r2 \in Reqs :
          (r1 # r2 /\ reqs[r1].kind = "End" /\ reqs[r2].kind = "End"
             /\ Ok(r1) /\ Done(r2) /\ reqs[r2].pid = HostId)
                => reqs[r2].res = "AlreadyEnded"

\* C13: the standings and winner an EndSession announces are the ranking of
\* the songs and votes the party holds at the step that writes ENDED
C13_StandingsTerminal ==
    [][\A r \in Reqs :
         (reqs[r].pc = "end_update" /\ reqs'[r].pc = "end_snap") =>
            /\ reqs[r].standings
                 = Standings(reqs[r].code,
                             ByQueuePosition(PartySongs(reqs[r].code)))
            /\ reqs[r].winner = Winner(reqs[r].standings)
      ]_vars

\* a SetPlayback handler whose party.update has committed
PlaybackWritten(r) ==
    reqs[r].kind = "SetPlayback" /\ (reqs[r].pc \in {"pb_snap", "pb_pub"} \/ Ok(r))

\* C14: in every reachable state, every party's playbackStartedAt is
\* non-null if and only if its playbackStatus is PLAYING, under any
\* interleaving of SetPlayback and SetCurrentItem handlers on a party as
\* CreateSession or an earlier PLAY left it
C14_StartedAtIffPlaying ==
    \A c \in DOMAIN parties :
        (parties[c].playbackStartedAt # NULL)
            <=> (parties[c].playbackStatus = "PLAYING")

\* a SetCurrentItem has answered and left the party PAUSED on song 1 while
\* a PLAY stands between computing its new state and writing it
C14_Witness ==
    \E r1, r2 \in Reqs :
        /\ reqs[r1].kind = "SetPlayback" /\ reqs[r1].pc = "pb_update"
        /\ reqs[r1].rdStatus = "PLAYING"
        /\ reqs[r2].kind = "SetCurrent" /\ Ok(r2)
        /\ parties["A"].playbackStatus = "PAUSED"
        /\ parties["A"].currentSongId = 1

\* the position the playback state a handler read gives at time t
PositionRead(q, t) ==
    IF q.rdStatus = "PLAYING" THEN q.rdOffset + Max0(t - q.rdStartedAt)
    ELSE q.rdOffset

\* what a SetPlayback handler does from its host check on, given the offset
\* base(q) it is to store: the new state is computed once, at the time of
\* the host check, and written as computed
PlaybackSteps(base(_)) ==
    \A r \in Reqs :
        /\ (reqs[r].pc = "pb_host" /\ reqs'[r].pc = "pb_update") =>
              /\ reqs'[r].rdOffset = base(reqs[r])
              /\ reqs[r].act = "PLAY" =>
                    reqs'[r].rdStatus = "PLAYING" /\ reqs'[r].rdStartedAt = now
              /\ reqs[r].act = "PAUSE" =>
                    reqs'[r].rdStatus = "PAUSED" /\ reqs'[r].rdStartedAt = NULL
        /\ (reqs[r].pc = "pb_update" /\ reqs'[r].pc = "pb_snap") =>
              /\ parties'[reqs[r].code].playbackStatus = reqs[r].rdStatus
              /\ parties'[reqs[r].code].playbackStartedAt = reqs[r].rdStartedAt
              /\ parties'[reqs[r].code].playbackOffsetSec = reqs[r].rdOffset
              /\ reqs[r].act \in {"PLAY", "PAUSE"}

\* the offset the claim has SetPlayback store
BaseAsClaimed(q) ==
    IF q.off # NaN /\ q.off >= 0 THEN q.off ELSE PositionRead(q, now)

\* the offset SetPlayback stores: a finite offset clamped at 0
BaseClamped(q) ==
    IF q.off # NaN THEN (IF q.off >= 0 THEN q.off ELSE 0)
    ELSE PositionRead(q, now)

\* C15 as claimed: SetPlayback stores the explicit offset only when it is
\* finite and >= 0, and the position at `now` of the playback state it read
\* in every other case, a negative offset included; PLAY stores PLAYING and
\* startedAt = now, PAUSE stores PAUSED and startedAt = null
C15_OffsetAsClaimed == [][PlaybackSteps(BaseAsClaimed)]_vars

\* C15 amended: SetPlayback stores max(0, offset) whenever the offset is
\* finite, so 0 for a negative one, and the position at `now` of the
\* playback state it read only when the offset is absent or not finite; PLAY
\* stores PLAYING and startedAt = now, PAUSE stores PAUSED and startedAt =
\* null
C15_OffsetClamped == [][PlaybackSteps(BaseClamped)]_vars

\* the party played from offset 2 since time 1; at time 2 the host's PLAY
\* with offset -2 has stored offset 0, where the position was 3
C15_Witness ==
    \E r \in Reqs :
        /\ PlaybackWritten(r) /\ reqs[r].act = "PLAY" /\ reqs[r].off = -2
        /\ reqs[r].rdStartedAt = 2
        /\ parties["A"].playbackStatus = "PLAYING"
        /\ parties["A"].playbackStartedAt = 2
        /\ parties["A"].playbackOffsetSec = 0

\* r is a successful PLAY with explicit offset >= 0 whose written state is
\* the party's playback state: no later call has changed it
PlayStands(r) ==
    /\ PlaybackWritten(r) /\ reqs[r].act = "PLAY"
    /\ reqs[r].off # NaN /\ reqs[r].off >= 0
    /\ parties[reqs[r].code].playbackStatus = "PLAYING"
    /\ parties[reqs[r].code].playbackStartedAt = reqs[r].rdStartedAt
    /\ parties[reqs[r].code].playbackOffsetSec = reqs[r].rdOffset

\* C16: while the state a successful Play(x), x >= 0, wrote at time t0
\* stands, the position derived at time t0 + d is x + d, by the server and by
\* the client alike; a tick of one second advances the derived position by
\* one while PLAYING and leaves it alone while PAUSED
C16_PositionAdvances ==
    /\ [](\A r \in Reqs : PlayStands(r) =>
            LET p == parties[reqs[r].code]
                d == now - reqs[r].rdStartedAt
            IN /\ d >= 0
               /\ PositionAt(p, now) = reqs[r].off + d
               /\ GetExpectedOffsetSec(p, now) = reqs[r].off + d)
    /\ [][(now' = now + 1 /\ parties' = parties) =>
            \A c \in DOMAIN parties :
                LET step == IF parties[c].playbackStatus = "PLAYING"
                            THEN 1 ELSE 0
                IN /\ PositionAt(parties[c], now') =
                         PositionAt(parties[c], now) + step
                   /\ GetExpectedOffsetSec(parties[c], now') =
                         GetExpectedOffsetSec(parties[c], now) + step
         ]_vars

\* Play(2) at time 1 has answered and the clock reads 2: the position is 3
C16_Witness ==
    \E r \in Reqs :
        /\ PlayStands(r) /\ Ok(r) /\ reqs[r].off = 2
        /\ reqs[r].rdStartedAt = 1 /\ now = 2
        /\ PositionAt(parties["A"], now) = 3

\* C17: the write of a successful SetCurrentItem(songId) sets the party's
\* currentSongId to songId and its playback state to PAUSED, startedAt null,
\* offset 0, whatever it was, and changes nothing else: no other column, no
\* song, no vote, no participant; the handler then answers OK
C17_SetCurrentResets ==
    [][\A r \in Reqs :
         /\ (reqs[r].pc = "cur_update" /\ reqs'[r].pc = "cur_snap") =>
               /\ parties' = [parties EXCEPT
                     ![reqs[r].code] =
                        [parties[reqs[r].code] EXCEPT
                            !.currentSongId = reqs[r].sid,
                            !.playbackStatus = "PAUSED",
                            !.playbackStartedAt = NULL,
                            !.playbackOffsetSec = 0]]
               /\ songs' = songs /\ votes' = votes
               /\ participants' = participants
         /\ (reqs[r].kind = "SetCurrent" /\ reqs[r].pc = "cur_snap"
               /\ reqs'[r] # reqs[r])
               => ((Ok(r)' \/ reqs'[r].pc = "cur_pub") /\ db' = db)
         /\ (reqs[r].kind = "SetCurrent" /\ reqs[r].pc = "cur_pub"
               /\ reqs'[r] # reqs[r]) => (Ok(r)' /\ db' = db)
         /\ (reqs[r].kind = "SetCurrent" /\ ~Ok(r) /\ Ok(r)')
               => reqs[r].pc \in {"cur_snap", "cur_pub"}
      ]_vars

\* the party was PLAYING from offset 2; the host's SetCurrentItem(1) has
\* answered OK and left it PAUSED at offset 0 with song 1 current
C17_Witness ==
    \E r, p \in Reqs :
        /\ reqs[r].kind = "SetCurrent" /\ Ok(r) /\ reqs[r].sid = 1
        /\ reqs[p].kind = "SetPlayback" /\ Ok(p) /\ reqs[p].act = "PLAY"
        /\ reqs[p].off = 2 /\ p < r /\ reqs[r].atIdle
        /\ parties["A"].currentSongId = 1
        /\ parties["A"].playbackStatus = "PAUSED"
        /\ parties["A"].playbackStartedAt = NULL
        /\ parties["A"].playbackOffsetSec = 0

\* r is a well-formed host-only call on an existing party by a caller who
\* is not that party's host
ByNonHost(r) ==
    /\ reqs[r].kind \in {"SetCurrent", "SetPlayback", "End"}
    /\ WellFormed(reqs[r])
    /\ reqs[r].code \in DOMAIN parties
    /\ reqs[r].pid # parties[reqs[r].code].hostParticipantId

\* the positions of a host-only handler past its host check
PastHostCheck ==
    { "cur_song", "cur_update", "cur_snap", "cur_pub",
      "pb_update", "pb_snap", "pb_pub",
      "end_group", "end_update", "end_snap", "end_pub" }

\* C18: a well-formed SetCurrentItem, SetPlayback or EndSession call by a
\* participant id that is not the party's host (its member, the host or a
\* member of another party, or an unknown id) never passes the host check,
\* never succeeds and changes nothing in the database; while the party is
\* ACTIVE it is answered NotHost, and otherwise AlreadyEnded
C18_HostOnly ==
    /\ [](\A r \in Reqs : ByNonHost(r) =>
            /\ reqs[r].pc \notin PastHostCheck
            /\ ~Ok(r)
            /\ Done(r) => reqs[r].res \in {"NotHost", "AlreadyEnded"}
            /\ (Done(r) /\ parties[reqs[r].code].status = "ACTIVE")
                  => reqs[r].res = "NotHost")
    /\ [][\A r \in Reqs :
            (ByNonHost(r) /\ reqs'[r].pc # reqs[r].pc) => db' = db]_vars

\* on the ACTIVE party A, the host of party B was refused a current-song
\* change and A's own member was refused the end of the party
C18_Witness ==
    \E r1, r2 \in Reqs :
        /\ reqs[r1].kind = "SetCurrent" /\ reqs[r1].pid = OtherHostId
        /\ reqs[r1].res = "NotHost"
        /\ reqs[r2].kind = "End" /\ reqs[r2].pid = MemberId
        /\ reqs[r2].res = "NotHost"
        /\ parties["A"].status = "ACTIVE"
        /\ parties["A"].currentSongId = NULL

\* the Participant rows with the id a handler was given for its new row
RowsOf(r) == { p \in participants : p.id = reqs[r].newPid }

\* the handlers whose participant.create has committed
Enrolled == { r \in Reqs : reqs[r].newPid # NoCaller }

\* C19: a JoinSession with a name is answered NotFound for a code of no
\* party, AlreadyEnded for a party that had ended when it arrived, and
\* NameTaken when the trimmed name is in use in the party, at its arrival or
\* by the time of its insert, and adds no participant in each case;
\* otherwise it adds exactly one non-host participant of that party with
\* that name.  In every reachable state, also under concurrent joins with
\* one name, names are unique within a party
C19_JoinSession ==
    /\ \A p1, p2 \in participants :
          (p1.partyId = p2.partyId /\ p1.name = p2.name) => p1 = p2
    /\ Cardinality(participants)
          = Cardinality(SeedParticipants) + Cardinality(Enrolled)
    /\ \A r \in Reqs : (reqs[r].kind = "Join" /\ WellFormed(reqs[r])) =>
          LET q == reqs[r] IN
          /\ (Ok(r) \/ q.pc \in {"join_snap", "join_pub"}) <=> (q.newPid # NoCaller)
          /\ q.newPid # NoCaller =>
                /\ Cardinality(RowsOf(r)) = 1
                /\ \A p \in RowsOf(r) :
                      ~p.isHost /\ p.partyId = q.code /\ p.name = q.name
          /\ Done(r) =>
                /\ q.res \in {"OK", "NotFound", "AlreadyEnded", "NameTaken"}
                /\ q.code \notin DOMAIN parties => q.res = "NotFound"
                /\ q.res = "NotFound" => ~q.atKnown
                /\ q.atEnded <=> (q.res = "AlreadyEnded")
                /\ (q.atKnown /\ ~q.atEnded /\ q.atTaken) => q.res = "NameTaken"
                /\ q.res = "NameTaken" =>
                      \E p \in participants :
                          p.partyId = q.code /\ p.name = q.name

\* two joins as "al" and " al" overlapped on party A: one enrolled, the
\* other, which arrived while the name was free, was answered NameTaken
C19_Witness ==
    \E r1, r2 \in Reqs :
        /\ reqs[r1].kind = "Join" /\ reqs[r2].kind = "Join"
        /\ reqs[r1].name = "al" /\ reqs[r2].name = "al"
        /\ reqs[r1].code = "A" /\ reqs[r2].code = "A"
        /\ Ok(r1)
        /\ reqs[r2].res = "NameTaken" /\ ~reqs[r2].atTaken
        /\ Cardinality({ p \in participants :
                            p.partyId = "A" /\ p.name = "al" }) = 1

\* a party with its host: exactly one participant of the party is host, and
\* it is the party's host reference
HasItsHost(ps, parts, c) ==
    /\ Cardinality({ p \in parts : p.partyId = c /\ p.isHost }) = 1
    /\ \E p \in parts : /\ p.partyId = c /\ p.isHost
                        /\ p.id = ps[c].hostParticipantId

\* C20: in every state, every party has its host; a step of a CreateSession
\* handler either adds one party, ACTIVE, with no current song, playback
\* PAUSED at offset 0 and no startedAt, no songs and no votes, together
\* with exactly one participant who is its host, and answers OK, or adds
\* neither a party nor a participant; a CreateSession that is not answered
\* OK has added nothing
C20_CreateAtomic ==
    /\ [](\A c \in DOMAIN parties : HasItsHost(parties, participants, c))
    /\ [](\A r \in Reqs : reqs[r].kind = "Create" =>
            (Ok(r) <=> reqs[r].newPid # NoCaller))
    /\ [][\A r \in Reqs :
            (reqs[r].kind = "Create" /\ reqs'[r] # reqs[r]) =>
               \/ db' = db /\ ~Ok(r)'
               \/ LET c == reqs'[r].code IN
                  /\ Ok(r)' /\ ~Done(r)
                  /\ c \notin DOMAIN parties
                  /\ DOMAIN parties' = DOMAIN parties \cup {c}
                  /\ \A d \in DOMAIN parties : parties'[d] = parties[d]
                  /\ parties'[c].status = "ACTIVE"
                  /\ parties'[c].currentSongId = NULL
                  /\ parties'[c].playbackStatus = "PAUSED"
                  /\ parties'[c].playbackStartedAt = NULL
                  /\ parties'[c].playbackOffsetSec = 0
                  /\ participants \subseteq participants'
                  /\ Cardinality(participants' \ participants) = 1
                  /\ \A p \in participants' \ participants :
                        p.partyId = c /\ p.isHost /\ p.name = reqs[r].name
                  /\ HasItsHost(parties', participants', c)
                  /\ songs' = songs /\ votes' = votes
                  /\ { s \in songs' : s.partyId = c } = {}
                  /\ { v \in votes' : v.partyId = c } = {}
         ]_vars

\* two creates drew code B at once: one committed party B with its host,
\* the other's transaction failed on the code index and left nothing
C20_Witness ==
    \E r1, r2 \in Reqs :
        /\ reqs[r1].kind = "Create" /\ Ok(r1) /\ reqs[r1].code = "B"
        /\ reqs[r2].kind = "Create" /\ reqs[r2].res = "Failure"
        /\ reqs[r2].code = "B"
        /\ "B" \in DOMAIN parties
        /\ Cardinality({ p \in participants : p.partyId = "B" }) = 1

(* --------------------------- code allocation --------------------------- *)

\* C21: party codes are unique, and allocation is serialized with the
\* uniqueness check: no two CreateSession calls hold the same candidate
\* past the check at once, and no CreateSession that passed the check for
\* a code fails
C21_AllocationSerialized ==
    /\ \A r1, r2 \in Reqs :
          (r1 # r2 /\ reqs[r1].pc = "tx" /\ reqs[r2].pc = "tx")
             => reqs[r1].code # reqs[r2].code
    /\ \A r \in Reqs :
          (reqs[r].kind = "Create" /\ reqs[r].code # "")
             => reqs[r].res # "Failure"

\* C22: generatePartyCode ends within MaxAttempts candidates: a round
\* either returns its candidate, which no party has, or counts one more
\* collision, and the collision that exhausts the budget fails the call
\* with nothing written and no code returned
C22_CodeGenerationBounded ==
    /\ [](\A r \in Reqs : reqs[r].i \in 0..(MaxAttempts - 1))
    /\ [][\A r \in Reqs :
            (reqs[r].pc = "gen" /\ reqs'[r] # reqs[r]) =>
               \/ /\ reqs'[r].pc = "tx"
                  /\ reqs'[r].code \notin DOMAIN parties
                  /\ db' = db
               \/ /\ reqs'[r].pc = "gen"
                  /\ reqs'[r].i = reqs[r].i + 1
                  /\ reqs'[r].code = ""
                  /\ db' = db
               \/ /\ reqs[r].i = MaxAttempts - 1
                  /\ reqs'[r].pc = "done" /\ reqs'[r].res = "Failure"
                  /\ reqs'[r].code = "" /\ reqs'[r].newPid = NoCaller
                  /\ db' = db
        ]_vars

\* one CreateSession got the last free code and answered OK; another found
\* every one of its ten candidates taken and failed, leaving no row
C22_Witness ==
    \E r1, r2 \in Reqs :
        /\ reqs[r1].kind = "Create" /\ Ok(r1) /\ reqs[r1].code = "B"
        /\ reqs[r2].kind = "Create" /\ WellFormed(reqs[r2])
        /\ reqs[r2].res = "Failure" /\ reqs[r2].code = ""
        /\ DOMAIN parties = CodeSpace
        /\ Cardinality(participants) = Cardinality(SeedParticipants) + 1

(* ------------------------ reset against playback ----------------------- *)

\* C29: a SetPlayback handler that read the playback columns before a
\* SetCurrentItem committed does not write over the reset: its update
\* leaves the party not PLAYING, and when the caller gave no offset (so
\* the offset comes from the clock as read) it leaves the offset at 0
C29_ResetStands ==
    [][\A r \in Reqs :
         (reqs[r].pc = "pb_update" /\ reqs'[r].pc = "pb_snap"
            /\ reqs[r].atReset) =>
               /\ parties'[reqs[r].code].playbackStatus # "PLAYING"
               /\ reqs[r].off = NaN =>
                     parties'[reqs[r].code].playbackOffsetSec = 0
      ]_vars

(* ----------------------------- publications ---------------------------- *)

\* what socket s1, in the room of party A from the start, has received
Mail == inbox["s1"]

\* the events a handler sent, in the order s1 received them
EventsBy(r) == SelectSeq(Mail, LAMBDA e : e.by = r)

\* the event types an operation publishes besides the snapshot
OpEvents(kind) ==
    CASE kind = "Join" -> {}
      [] kind = "AddItem" -> {"queue:updated"}
      [] kind = "Vote" -> {"votes:updated"}
      [] kind = "SetCurrent" -> {"party:state-updated"}
      [] kind = "SetPlayback" -> {"party:playback-updated"}
      [] kind = "End" -> {"party:ended", "party:state-updated"}
      [] OTHER -> {}

\* the positions of a handler whose write has committed
Written ==
    { "join_snap", "join_pub", "add_snap", "add_pub", "vote_count",
      "vote_snap", "vote_pub", "cur_snap", "cur_pub", "pb_snap", "pb_pub",
      "end_snap", "end_pub" }

\* every handler has answered
Quiet == Len(reqs) > 0 /\ \A r \in Reqs : Done(r)

\* C23: a call that has answered OK has published, to its party's room
\* and after its write, exactly one party:snapshot and each of its
\* operation's events once (the snapshot of an AddItem holds the new
\* song); a call that has answered a failure has published nothing
C23_PublishesIffSucceeds ==
    \A r \in Reqs :
        LET evs == EventsBy(r) IN
        /\ (Done(r) /\ Ok(r)) =>
              /\ { evs[i].type : i \in 1..Len(evs) }
                    = OpEvents(reqs[r].kind) \cup {"party:snapshot"}
              /\ Len(evs) = Cardinality(OpEvents(reqs[r].kind)) + 1
              /\ \A i \in 1..Len(evs) : evs[i].code = ToUpper(reqs[r].code)
              /\ reqs[r].kind = "AddItem" =>
                    \A i \in 1..Len(evs) :
                       evs[i].type = "party:snapshot" =>
                          \E k \in 1..Len(evs[i].body.songs) :
                             evs[i].body.songs[k].id = reqs[r].newSong
        /\ (Done(r) /\ ~Ok(r)) => evs = << >>
        /\ evs # << >> => (Done(r) \/ reqs[r].pc \in Written)

\* C24: snapshots reach the room in commit order, so once every handler
\* has answered the last snapshot published is the committed state
C24_LastSnapshotIsFinal ==
    LET snaps == SelectSeq(Mail, LAMBDA e : e.type = "party:snapshot") IN
    (Quiet /\ snaps # << >>) =>
        snaps[Len(snaps)].body = GetPartySnapshot("A")

\* C26: a call that answers a failure has written nothing: the step that
\* fails it changes no table, and its handler had no committed write
C26_AllOrNothing ==
    [][\A r \in Reqs :
         (reqs[r].res = "pending" /\ reqs'[r].res \notin {"pending", "OK"})
            => (db' = db /\ reqs[r].pc \notin Written)
      ]_vars

\* C30: every successful mutating call publishes its snapshot before its
\* operation's events
C30_SnapshotBeforeEvent ==
    \A r \in Reqs : (Done(r) /\ Ok(r)) =>
        \A i, j \in 1..Len(Mail) :
            (Mail[i].by = r /\ Mail[j].by = r
               /\ Mail[i].type = "party:snapshot"
               /\ Mail[j].type # "party:snapshot") => i < j

(* ------------------------------ two parties ---------------------------- *)

\* everything stored for a party: its row, its participants, its songs and
\* the votes on them
RowsOfParty(code) ==
    << parties[code],
       { p \in participants : p.partyId = code },
       { s \in songs : s.partyId = code },
       { v \in votes : v.partyId = code
                        \/ \E s \in songs : s.id = v.songId /\ s.partyId = code } >>

\* the participant ids and the song ids of a party
MembersOf(code) == { p.id : p \in { x \in participants : x.partyId = code } }
ItemsOf(code) == { s.id : s \in { x \in songs : x.partyId = code } }

\* C27: an operation addressed to party A leaves every row of party B as
\* it was and sends nothing to B's room; what A's room receives carries
\* code A; a call that names a participant or a song of B is never
\* answered OK, and A's rows refer to A's participants and songs only
C27_SessionsIndependent ==
    /\ [][ RowsOfParty("B")' = RowsOfParty("B")
           /\ inbox'["s2"] = inbox["s2"] ]_vars
    /\ [](/\ inbox["s2"] = << >>
          /\ \A i \in 1..Len(inbox["s1"]) : inbox["s1"][i].code = "A"
          /\ \A r \in Reqs :
                (reqs[r].pid \in MembersOf("B") \/ reqs[r].sid \in ItemsOf("B"))
                   => (~Ok(r) /\ reqs[r].pc \notin Written)
          /\ \A s \in songs :
                s.partyId = "A" => s.addedById \in MembersOf("A")
          /\ \A v \in votes :
                v.songId \in ItemsOf("A") =>
                   (v.partyId = "A" /\ v.participantId \in MembersOf("A"))
          /\ parties["A"].currentSongId \in {NULL} \cup ItemsOf("A"))

\* A's host has ended party A and A's room has the three events; party B
\* is ACTIVE and PLAYING its song, and its room has received nothing
C27_Witness ==
    /\ \E r \in Reqs : reqs[r].kind = "End" /\ Ok(r) /\ Done(r)
    /\ parties["A"].status = "ENDED"
    /\ Len(inbox["s1"]) = 3
    /\ parties["B"].status = "ACTIVE"
    /\ parties["B"].playbackStatus = "PLAYING"
    /\ parties["B"].currentSongId = 2
    /\ inbox["s2"] = << >>

(* ----------------------------- subscriptions --------------------------- *)

\* the events the handler of request r sent to a socket
SentBy(r, sock) == SelectSeq(inbox[sock], LAMBDA e : e.by = r)

\* body is the full state of party A: its row, its participants, and its
\* songs in queue order, each with the number and the voters of its votes
FullViewOfA(body) ==
    /\ body.party = parties["A"]
    /\ body.participants = { p \in participants : p.partyId = "A" }
    /\ { body.songs[k].id : k \in 1..Len(body.songs) }
          = { s.id : s \in PartySongs("A") }
    /\ Len(body.songs) = Cardinality(PartySongs("A"))
    /\ \A k \in 1..Len(body.songs) :
          /\ \E s \in PartySongs("A") :
                /\ s.id = body.songs[k].id
                /\ s.queuePosition = body.songs[k].queuePosition
          /\ k > 1 => body.songs[k - 1].queuePosition
                         < body.songs[k].queuePosition
          /\ body.songs[k].voterIds
                = { v.participantId :
                      v \in { w \in votes : w.songId = body.songs[k].id } }
          /\ body.songs[k].voteCount
                = Cardinality({ w \in votes : w.songId = body.songs[k].id })

\* C28: a party:join-room request for a code has, once handled, exactly
\* one answer, sent to its socket alone: for the code of a party, in
\* either case, party:snapshot with the party's full current state, and
\* the socket is in that party's room; for any other code party:not-found
\* with the upper-cased code, and the socket is not in a room of that
\* code.  Only answered subscriptions put a socket into a room
C28_SubscriptionAnswered ==
    /\ \A r \in Reqs :
          (reqs[r].kind = "Sub" /\ reqs[r].atCode # "") =>
             LET q == reqs[r]
                 mine == SentBy(r, q.sock)
             IN /\ \A s \in Sockets \ {q.sock} : SentBy(r, s) = << >>
                /\ Len(mine) = IF Done(r) THEN 1 ELSE 0
                /\ Done(r) =>
                      IF q.atCode \in {"a", "A"}
                      THEN /\ mine[1].type = "party:snapshot"
                           /\ FullViewOfA(mine[1].body)
                           /\ <<q.sock, "A">> \in rooms
                      ELSE /\ mine[1].type = "party:not-found"
                           /\ mine[1].body = [ partyCode |-> "B" ]
                           /\ <<q.sock, "B">> \notin rooms
                           /\ <<q.sock, q.atCode>> \notin rooms
    /\ \A pair \in rooms :
          \E r \in Reqs : /\ reqs[r].kind = "Sub" /\ Ok(r)
                          /\ pair = <<reqs[r].sock, "A">>

\* socket s1 asked for "a" and is in room A with the snapshot; socket s2
\* asked for "b", got party:not-found and is in no room
C28_Witness ==
    \E r1, r2 \in Reqs :
        /\ reqs[r1].kind = "Sub" /\ reqs[r1].sock = "s1"
        /\ reqs[r1].atCode = "a" /\ Ok(r1)
        /\ reqs[r2].kind = "Sub" /\ reqs[r2].sock = "s2"
        /\ reqs[r2].atCode = "b" /\ reqs[r2].res = "NotFound"
        /\ rooms = { <<"s1", "A">> }
        /\ Len(inbox["s1"]) = 1 /\ Len(inbox["s2"]) = 1

(* ---------------------------- current item ----------------------------- *)

\* r is a well-formed current-song call whose song id is no song of the
\* party it names
NoSuchItem(r) ==
    /\ reqs[r].kind = "SetCurrent"
    /\ WellFormed(reqs[r])
    /\ reqs[r].sid \notin ItemsOf(reqs[r].code)

\* C31: in every reachable state a party's currentSongId is null or the
\* id of a song of that party; a SetCurrentItem whose song id is, when the
\* handler looks it up, unknown or a song of another party never reaches
\* its update, its steps leave every party row (current song and playback
\* columns) as it was, and the party's host is answered SongNotFound
C31_CurrentItemOfSession ==
    /\ [](\A c \in DOMAIN parties :
              parties[c].currentSongId \in {NULL} \cup ItemsOf(c))
    /\ [](\A r \in Reqs : NoSuchItem(r) =>
            /\ reqs[r].pc \notin {"cur_update", "cur_snap", "cur_pub"}
            /\ ~Ok(r)
            /\ Done(r) =>
                  reqs[r].res \in {"SongNotFound", "NotHost", "AlreadyEnded",
                                   "NotFound"}
            /\ (Done(r) /\ RequireHost(reqs[r].code, reqs[r].pid)
                  /\ parties[reqs[r].code].status = "ACTIVE")
                  => reqs[r].res = "SongNotFound")
    /\ [][\A r \in Reqs :
            (NoSuchItem(r) /\ reqs'[r].pc # reqs[r].pc) => parties' = parties
        ]_vars

\* party A is PLAYING from offset 2 with no current song; after that its
\* host asked for B's song as current and was answered SongNotFound
C31_Witness ==
    \E p, r \in Reqs :
        /\ reqs[p].kind = "SetPlayback" /\ Ok(p) /\ p < r
        /\ reqs[r].kind = "SetCurrent" /\ reqs[r].pid = HostId
        /\ reqs[r].sid = 2 /\ reqs[r].atIdle
        /\ reqs[r].res = "SongNotFound"
        /\ parties["A"].currentSongId = NULL
        /\ parties["A"].playbackStatus = "PLAYING"
        /\ parties["A"].playbackOffsetSec = 2
        /\ parties["B"].currentSongId = 2

(* -------------------------------- host --------------------------------- *)

\* the participants of a party that carry the host flag
HostsOf(parts, c) == { p \in parts : p.partyId = c /\ p.isHost }

\* C32: in every reachable state each party has exactly one participant
\* with isHost, and that participant is the only one with the id in the
\* party's hostParticipantId; no step changes a party's hostParticipantId
\* or its set of host rows, and no party is removed
C32_OneHostForever ==
    /\ [](\A c \in DOMAIN parties :
            /\ Cardinality(HostsOf(participants, c)) = 1
            /\ { p \in participants : p.id = parties[c].hostParticipantId }
                  = HostsOf(participants, c))
    /\ [][\A c \in DOMAIN parties :
            /\ c \in DOMAIN parties'
            /\ parties'[c].hostParticipantId = parties[c].hostParticipantId
            /\ HostsOf(participants', c) = HostsOf(participants, c)
        ]_vars

\* a CreateSession has committed a second party with its host, and a
\* JoinSession has added a third participant to party A, whose host is
\* still the seeded one
C32_Witness ==
    \E r1, r2 \in Reqs :
        /\ reqs[r1].kind = "Create" /\ Ok(r1)
        /\ reqs[r1].code \in DOMAIN parties
        /\ parties[reqs[r1].code].hostParticipantId = reqs[r1].newPid
        /\ reqs[r2].kind = "Join" /\ Ok(r2) /\ reqs[r2].code = "A"
        /\ Cardinality({ p \in participants : p.partyId = "A" }) = 3
        /\ parties["A"].hostParticipantId = HostId

(* ----------------------------- append-only ----------------------------- *)

\* C33: no step removes or alters a Song row or a Participant row (so no
\* song changes its queue position), song ids are unique, and every Song
\* row a step adds has a queue position strictly greater than that of
\* every song its party already had
C33_AppendOnly ==
    /\ [](\A s1, s2 \in songs : s1.id = s2.id => s1 = s2)
    /\ [][ /\ songs \subseteq songs'
           /\ participants \subseteq participants'
           /\ \A s \in songs' \ songs : \A o \in songs :
                 o.partyId = s.partyId => o.queuePosition < s.queuePosition
        ]_vars

\* three adds have committed, one of them having arrived while another
\* handler was open; the songs' positions follow the order of creation
C33_Witness ==
    /\ Cardinality(PartySongs("A")) = 3
    /\ \A s \in PartySongs("A") : s.queuePosition = s.id
    /\ \E r \in Added : ~reqs[r].atIdle /\ reqs[r].qpos = 3

(* ------------------------------ ENDED ---------------------------------- *)

\* the step is the party.update of an EndSession call by the party's host
EndWrites(c) ==
    \E r \in Reqs :
        /\ reqs[r].kind = "End" /\ reqs[r].code = c
        /\ reqs[r].pid = parties[c].hostParticipantId
        /\ reqs[r].pc = "end_update" /\ reqs'[r].pc = "end_snap"

\* an ENDED party stays ENDED, only the host's EndSession write ends a
\* party, and endedAt is set exactly while the party is ENDED
EndedStays ==
    /\ [](\A c \in DOMAIN parties :
            (parties[c].endedAt # NULL) <=> (parties[c].status = "ENDED"))
    /\ [][\A c \in DOMAIN parties :
            /\ parties[c].status = "ENDED" => parties'[c].status = "ENDED"
            /\ (parties[c].status = "ACTIVE" /\ parties'[c].status = "ENDED")
                  => EndWrites(c)
        ]_vars

\* C34: ENDED is terminal, only the host's EndSession write ends a party,
\* endedAt is set exactly while the party is ENDED, and no step changes an
\* endedAt that is set
C34_EndedTerminal ==
    /\ EndedStays
    /\ [][\A c \in DOMAIN parties :
            parties[c].endedAt # NULL => parties'[c].endedAt = parties[c].endedAt
        ]_vars

(* ------------------------- no jump of the clock ------------------------ *)

\* position(t) of a party row: offsetSec if PAUSED, and otherwise
\* offsetSec + max(0, t - startedAt)
PositionOf(p, t) ==
    IF p.playbackStatus = "PAUSED" THEN p.playbackOffsetSec
    ELSE p.playbackOffsetSec
            + (IF t > p.playbackStartedAt THEN t - p.playbackStartedAt ELSE 0)

\* r is a SetPlayback call without offset that arrived when every earlier
\* handler had returned, and no call has arrived since: its handler ran
\* after every earlier call and before every later one
AloneNoOffset(r) ==
    /\ reqs[r].kind = "SetPlayback" /\ reqs[r].off = NaN
    /\ reqs[r].atIdle /\ Len(reqs) = r

\* the readings of a clock, for positions derived at any time
Times == 0..(MaxNow + 1)

\* C35: for SetPlayback calls without offset made one after another, the
\* write leaves the position derived at the handler's `now` as it was:
\* PAUSE on a PLAYING party stores position(now), PLAY on a PAUSED party
\* keeps offsetSec; PAUSE on a PAUSED party, and PLAY at the instant the
\* party started playing, change the position derived at no time
C35_NoJump ==
    [][\A r \in Reqs :
         (AloneNoOffset(r) /\ reqs[r].pc = "pb_update"
            /\ reqs'[r].pc = "pb_snap") =>
            LET old == parties[reqs[r].code]
                new == parties'[reqs[r].code]
                t == reqs[r].atNow
            IN /\ PositionOf(new, t) = PositionOf(old, t)
               /\ (reqs[r].act = "PAUSE" /\ old.playbackStatus = "PLAYING")
                     => new.playbackOffsetSec = PositionOf(old, t)
               /\ (reqs[r].act = "PLAY" /\ old.playbackStatus = "PAUSED")
                     => new.playbackOffsetSec = old.playbackOffsetSec
               /\ ((reqs[r].act = "PAUSE" /\ old.playbackStatus = "PAUSED")
                     \/ (reqs[r].act = "PLAY" /\ old.playbackStatus = "PLAYING"
                           /\ old.playbackStartedAt = t))
                     => \A u \in Times : PositionOf(new, u) = PositionOf(old, u)
      ]_vars

\* the host's PLAY at time 1 and, after it had returned, the host's PAUSE
\* at time 2, both without offset: the party is PAUSED at offset 1
C35_Witness ==
    \E r1, r2 \in Reqs :
        /\ r1 < r2 /\ Ok(r1) /\ Ok(r2)
        /\ reqs[r1].kind = "SetPlayback" /\ reqs[r1].act = "PLAY"
        /\ reqs[r1].off = NaN
        /\ reqs[r2].kind = "SetPlayback" /\ reqs[r2].act = "PAUSE"
        /\ reqs[r2].off = NaN /\ reqs[r2].atIdle
        /\ parties["A"].playbackStatus = "PAUSED"
        /\ parties["A"].playbackOffsetSec = 1
        /\ now = 2

(* ------------------------ offsets are not negative --------------------- *)

\* C36: in every reachable state the stored playbackOffsetSec of every
\* party is >= 0, and so is the offset every SetPlayback handler has
\* computed and is about to write, whatever offsets the calls carried
C36_OffsetNonNegative ==
    /\ \A c \in DOMAIN parties : parties[c].playbackOffsetSec >= 0
    /\ \A r \in Reqs :
          reqs[r].pc \in {"pb_update", "pb_snap", "pb_pub"}
             => reqs[r].rdOffset >= 0

\* the party played from offset 2; the host's PAUSE with offset -2 has
\* been written, and the party is PAUSED at offset 0
C36_Witness ==
    \E r \in Reqs :
        /\ reqs[r].kind = "SetPlayback" /\ Ok(r)
        /\ reqs[r].act = "PAUSE" /\ reqs[r].off = -2
        /\ parties["A"].playbackStatus = "PAUSED"
        /\ parties["A"].playbackOffsetSec = 0

(* -------------------------- the client's clock ------------------------- *)

\* C37: for the playback state of every party in every reachable state,
\* and every reading t of the client's clock, before startedAt included,
\* getExpectedOffsetSec gives position(t), which is also what the server
\* derives at t
C37_ClientAgrees ==
    \A c \in DOMAIN parties : \A t \in Times :
        /\ GetExpectedOffsetSec(parties[c], t) = PositionOf(parties[c], t)
        /\ GetExpectedOffsetSec(parties[c], t) = PositionAt(parties[c], t)

(* ------------------------------ membership ----------------------------- *)

\* r is a well-formed add or vote by an id that is no participant of the
\* party it names
ByNonMember(r) ==
    /\ reqs[r].kind \in {"AddItem", "Vote"}
    /\ WellFormed(reqs[r])
    /\ reqs[r].code \in DOMAIN parties
    /\ reqs[r].pid \notin MembersOf(reqs[r].code)

\* r is a well-formed vote by a participant of the party it names on an
\* id that is no song of that party
OnNoSong(r) ==
    /\ reqs[r].kind = "Vote"
    /\ WellFormed(reqs[r])
    /\ reqs[r].code \in DOMAIN parties
    /\ reqs[r].pid \in MembersOf(reqs[r].code)
    /\ reqs[r].sid \notin ItemsOf(reqs[r].code)

\* the positions of an add or vote handler past its lookups
PastLookups ==
    { "add_create", "add_snap", "add_pub",
      "vote_find", "vote_write", "vote_count", "vote_snap", "vote_pub" }

\* C38: in every reachable state the song and the participant of every
\* Vote row are a song and a participant of the row's party, and the adder
\* of every song is a participant of the song's party; on an ACTIVE
\* party, an add or a vote by an id that is no participant of it is
\* answered NotMember, and a member's vote on an id that is no song of it
\* is answered SongNotFound; neither gets past its lookups, and no step
\* of either changes a row
C38_RowsWithinParty ==
    /\ [](/\ \A v \in votes :
               /\ v.songId \in ItemsOf(v.partyId)
               /\ v.participantId \in MembersOf(v.partyId)
          /\ \A s \in songs : s.addedById \in MembersOf(s.partyId)
          /\ \A r \in Reqs : (ByNonMember(r) \/ OnNoSong(r)) =>
                /\ reqs[r].pc \notin PastLookups
                /\ ~Ok(r)
                /\ reqs[r].newSong = 0
                /\ (Done(r) /\ parties[reqs[r].code].status = "ACTIVE") =>
                      reqs[r].res = IF ByNonMember(r) THEN "NotMember"
                                    ELSE "SongNotFound")
    /\ [][\A r \in Reqs :
            ((ByNonMember(r) \/ OnNoSong(r)) /\ reqs'[r].pc # reqs[r].pc)
               => db' = db
        ]_vars

\* on party A, the add of B's member was answered NotMember and the vote
\* of A's member on B's song SongNotFound; no song and no vote was stored
C38_Witness ==
    \E r1, r2 \in Reqs :
        /\ reqs[r1].kind = "AddItem" /\ reqs[r1].pid = OtherMemberId
        /\ reqs[r1].res = "NotMember"
        /\ reqs[r2].kind = "Vote" /\ reqs[r2].pid = MemberId
        /\ reqs[r2].sid = 2 /\ reqs[r2].res = "SongNotFound"
        /\ Cardinality(songs) = 2
        /\ votes = {}

====
